---- MODULE Spec2Model ----
(***************************************************************************)
(* Model of the rdf-types interning layer: the IndexVocabulary interning   *)
(* engine (src/vocabulary/index.rs) and the transparent Hash               *)
(* implementations of Id and Term (src/term/id.rs, src/term/mod.rs,        *)
(* src/term.rs), the comparisons of identifiers, terms and quads, the quad  *)
(* operations (src/quad.rs) and the blank node identifier generator        *)
(* (src/generator.rs).                                                     *)
(***************************************************************************)
EXTENDS Integers, Sequences, FiniteSets, TLC

VARIABLES
    types,   \* the type parameters (I, B) of the IndexVocabulary instances
    vocs,    \* the IndexVocabulary instances, by name
    issued,  \* per instance: the identifier returned by the first insert of each lexical form
    last,    \* the last call: operation, receiver, argument, return value
    hasher,  \* the data fed so far to the core::hash::Hasher
    gen,     \* the generator::Blank instance: prefix, count, and whether a call panicked
    build,   \* the build profile: whether integer overflow checks are compiled in
    generated, \* the generator's history: its offset and the identifiers it returned
    interp   \* the calls made on the identity interpretation `()`, with their results

vars == <<types, vocs, issued, last, hasher, gen, build, generated, interp>>

(***************************************************************************)
(* Bounds and input sets.                                                  *)
(***************************************************************************)
\* Largest dynamic index presented to iri() / blank_id().
MaxIndex == 3
\* A hash call is made while the hasher holds fewer writes than this.
MaxHasherLen == 2

\* The vocabulary instances.
Vocs == {"A", "B"}
\* The lexical IRIs given to insert / get.
Iris == {"a", "k"}
\* The IRIs the static type I of IriIndex<I> recognises (I::try_from is Ok).
KnownIris == {"k"}
\* The blank node identifiers given to insert_blank_id / get_blank_id.
BlankIds == {"_:x", "_:s"}
\* The blank node identifiers the static type B of BlankIdIndex<B> recognises.
KnownBlankIds == {"_:s"}

(***************************************************************************)
(* Option and Result.                                                      *)
(***************************************************************************)
None == [some |-> FALSE]
Some(x) == [some |-> TRUE, val |-> x]
Err == [ok |-> FALSE]
Ok(x) == [ok |-> TRUE, id |-> x]

Range(f) == {f[x] : x \in DOMAIN f}

(***************************************************************************)
(* Identifier types: Index(usize), IriIndex<I>, BlankIdIndex<B>.           *)
(***************************************************************************)
\* From<usize>: Index(i), IriIndex::Index(i), BlankIdIndex::Index(i).
IndexFrom(i) == [tag |-> "Index", i |-> i]
\* IriIndex::Iri(I): a statically known IRI.
IriIndexIri(x) == [tag |-> "Iri", iri |-> x]
\* BlankIdIndex::BlankId(B): a statically known blank node identifier.
BlankIdIndexBlankId(x) == [tag |-> "BlankId", blank |-> x]

\* I::try_from(iri): Index never classifies, IriIndex<I> classifies what I does.
TryFromIri(T, x) ==
    IF T = "IriIndex" /\ x \in KnownIris THEN Ok(IriIndexIri(x)) ELSE Err

\* B::try_from(blank_id).
TryFromBlankId(T, x) ==
    IF T = "BlankIdIndex" /\ x \in KnownBlankIds THEN Ok(BlankIdIndexBlankId(x)) ELSE Err

\* The identifier values of type I (resp. B) that a caller can present.
IriIds(T) ==
    {IndexFrom(i) : i \in 0..MaxIndex}
        \cup (IF T = "IriIndex" THEN {IriIndexIri(x) : x \in KnownIris} ELSE {})
BlankIdIds(T) ==
    {IndexFrom(i) : i \in 0..MaxIndex}
        \cup (IF T = "BlankIdIndex" THEN {BlankIdIndexBlankId(x) : x \in KnownBlankIds} ELSE {})

(***************************************************************************)
(* IndexVocabulary.                                                        *)
(***************************************************************************)
\* Vec::get(i) on a 0-based arena.
VecGet(vec, i) == IF i < Len(vec) THEN Some(vec[i + 1]) ELSE None

\* IndexVocabulary::default().
Default ==
    [allocated |-> <<>>, map |-> <<>>, blank_allocated |-> <<>>, blank_map |-> <<>>]

\* iri with an off-by-one arena lookup (1-based index).
iri_one_based(voc, id) ==
    IF id.tag = "Iri" THEN Some(id.iri)
    ELSE IF 1 <= id.i /\ id.i <= Len(voc.allocated) THEN Some(voc.allocated[id.i]) ELSE None

\* IriVocabulary::iri.
iri(voc, id) ==
    IF id.tag = "Iri" THEN Some(id.iri) ELSE VecGet(voc.allocated, id.i)

\* get that defaults a missing map entry to index 0.
get_or_default(voc, T, x) ==
    LET r == TryFromIri(T, x) IN
    IF r.ok THEN Some(r.id)
    ELSE IF x \in DOMAIN voc.map THEN Some(IndexFrom(voc.map[x])) ELSE Some(IndexFrom(0))

\* get that skips the inline classification and only consults the map.
get_no_inline(voc, T, x) ==
    IF x \in DOMAIN voc.map THEN Some(IndexFrom(voc.map[x])) ELSE None

\* IriVocabulary::get.
get(voc, T, x) ==
    LET r == TryFromIri(T, x) IN
    IF r.ok THEN Some(r.id)
    ELSE IF x \in DOMAIN voc.map THEN Some(IndexFrom(voc.map[x])) ELSE None

\* insert that records the map entry but never pushes the key to the arena.
insert_no_push(voc, T, x) ==
    LET r == TryFromIri(T, x) IN
    IF r.ok THEN [voc |-> voc, id |-> r.id]
    ELSE IF x \in DOMAIN voc.map THEN [voc |-> voc, id |-> IndexFrom(voc.map[x])]
    ELSE LET index == Len(voc.allocated) IN
         [voc |-> [voc EXCEPT !.map = (x :> index) @@ @], id |-> IndexFrom(index)]

\* insert that never consults the lookup map and always appends.
insert_no_lookup(voc, T, x) ==
    LET r == TryFromIri(T, x) IN
    IF r.ok THEN [voc |-> voc, id |-> r.id]
    ELSE LET index == Len(voc.allocated) IN
         [voc |-> [voc EXCEPT !.allocated = Append(@, x),
                              !.map = (x :> index) @@ @],
          id |-> IndexFrom(index)]

\* insert that reads the arena length after the push.
insert_len_after_push(voc, T, x) ==
    LET r == TryFromIri(T, x) IN
    IF r.ok THEN [voc |-> voc, id |-> r.id]
    ELSE IF x \in DOMAIN voc.map THEN [voc |-> voc, id |-> IndexFrom(voc.map[x])]
    ELSE LET index == Len(voc.allocated) + 1 IN
         [voc |-> [voc EXCEPT !.allocated = Append(@, x),
                              !.map = (x :> index) @@ @],
          id |-> IndexFrom(index)]

\* insert that puts the new key at the front of the arena.
insert_at_front(voc, T, x) ==
    LET r == TryFromIri(T, x) IN
    IF r.ok THEN [voc |-> voc, id |-> r.id]
    ELSE IF x \in DOMAIN voc.map THEN [voc |-> voc, id |-> IndexFrom(voc.map[x])]
    ELSE LET index == Len(voc.allocated) IN
         [voc |-> [voc EXCEPT !.allocated = <<x>> \o @,
                              !.map = (x :> index) @@ @],
          id |-> IndexFrom(index)]

\* insert that skips the inline classification and interns every IRI.
insert_no_inline(voc, T, x) ==
    IF x \in DOMAIN voc.map THEN [voc |-> voc, id |-> IndexFrom(voc.map[x])]
    ELSE LET index == Len(voc.allocated) IN
         [voc |-> [voc EXCEPT !.allocated = Append(@, x),
                              !.map = (x :> index) @@ @],
          id |-> IndexFrom(index)]

\* insert that appends to the arena but never records the key in the map.
insert_no_map(voc, T, x) ==
    LET r == TryFromIri(T, x) IN
    IF r.ok THEN [voc |-> voc, id |-> r.id]
    ELSE IF x \in DOMAIN voc.map THEN [voc |-> voc, id |-> IndexFrom(voc.map[x])]
    ELSE LET index == Len(voc.allocated) IN
         [voc |-> [voc EXCEPT !.allocated = Append(@, x)],
          id |-> IndexFrom(index)]

\* IriVocabularyMut::insert: the vocabulary after the call and the returned id.
insert(voc, T, x) ==
    LET r == TryFromIri(T, x) IN
    IF r.ok THEN [voc |-> voc, id |-> r.id]
    ELSE IF x \in DOMAIN voc.map THEN [voc |-> voc, id |-> IndexFrom(voc.map[x])]
    ELSE LET index == Len(voc.allocated) IN
         [voc |-> [voc EXCEPT !.allocated = Append(@, x),
                              !.map = (x :> index) @@ @],
          id |-> IndexFrom(index)]

\* BlankIdVocabulary::blank_id.
blank_id(voc, id) ==
    IF id.tag = "BlankId" THEN Some(id.blank) ELSE VecGet(voc.blank_allocated, id.i)

\* BlankIdVocabulary::get_blank_id.
get_blank_id(voc, T, x) ==
    LET r == TryFromBlankId(T, x) IN
    IF r.ok THEN Some(r.id)
    ELSE IF x \in DOMAIN voc.blank_map THEN Some(IndexFrom(voc.blank_map[x])) ELSE None

\* insert_blank_id that takes the new index from the IRI arena.
insert_blank_id_iri_len(voc, T, x) ==
    LET r == TryFromBlankId(T, x) IN
    IF r.ok THEN [voc |-> voc, id |-> r.id]
    ELSE IF x \in DOMAIN voc.blank_map
         THEN [voc |-> voc, id |-> IndexFrom(voc.blank_map[x])]
    ELSE LET index == Len(voc.allocated) IN
         [voc |-> [voc EXCEPT !.blank_allocated = Append(@, x),
                              !.blank_map = (x :> index) @@ @],
          id |-> IndexFrom(index)]

\* BlankIdVocabularyMut::insert_blank_id.
insert_blank_id(voc, T, x) ==
    LET r == TryFromBlankId(T, x) IN
    IF r.ok THEN [voc |-> voc, id |-> r.id]
    ELSE IF x \in DOMAIN voc.blank_map
         THEN [voc |-> voc, id |-> IndexFrom(voc.blank_map[x])]
    ELSE LET index == Len(voc.blank_allocated) IN
         [voc |-> [voc EXCEPT !.blank_allocated = Append(@, x),
                              !.blank_map = (x :> index) @@ @],
          id |-> IndexFrom(index)]

\* #[derive(Default)] of generator::Blank: no prefix, count 0.
BlankDefault == [prefix |-> "", count |-> 0, panicked |-> FALSE]

(***************************************************************************)
(* The calls on the vocabulary instances.                                  *)
(***************************************************************************)
TypeChoices == [I : {"Index", "IriIndex"}, B : {"Index", "BlankIdIndex"}]

Init ==
    /\ types \in TypeChoices
    /\ vocs = [v \in Vocs |-> Default]
    /\ issued = [v \in Vocs |-> [iri |-> <<>>, blank |-> <<>>]]
    /\ last = [op |-> "new"]
    /\ hasher = <<>>
    /\ gen = BlankDefault
    /\ build = [overflow_checks |-> TRUE]
    /\ generated = [offset |-> 0, ids |-> <<>>]
    /\ interp = {}

Insert(v, x) ==
    LET r == insert(vocs[v], types.I, x) IN
    /\ vocs' = [vocs EXCEPT ![v] = r.voc]
    /\ issued' = [issued EXCEPT ![v].iri = IF x \in DOMAIN @ THEN @ ELSE (x :> r.id) @@ @]
    /\ last' = [op |-> "insert", v |-> v, arg |-> x, res |-> r.id]
    /\ UNCHANGED <<types, hasher, gen, build, generated, interp>>

Get(v, x) ==
    /\ last' = [op |-> "get", v |-> v, arg |-> x, res |-> get(vocs[v], types.I, x)]
    /\ UNCHANGED <<types, vocs, issued, hasher, gen, build, generated, interp>>

IriOf(v, id) ==
    /\ last' = [op |-> "iri", v |-> v, arg |-> id, res |-> iri(vocs[v], id)]
    /\ UNCHANGED <<types, vocs, issued, hasher, gen, build, generated, interp>>

InsertBlankId(v, x) ==
    LET r == insert_blank_id(vocs[v], types.B, x) IN
    /\ vocs' = [vocs EXCEPT ![v] = r.voc]
    /\ issued' = [issued EXCEPT ![v].blank = IF x \in DOMAIN @ THEN @ ELSE (x :> r.id) @@ @]
    /\ last' = [op |-> "insert_blank_id", v |-> v, arg |-> x, res |-> r.id]
    /\ UNCHANGED <<types, hasher, gen, build, generated, interp>>

GetBlankId(v, x) ==
    /\ last' = [op |-> "get_blank_id", v |-> v, arg |-> x,
                res |-> get_blank_id(vocs[v], types.B, x)]
    /\ UNCHANGED <<types, vocs, issued, hasher, gen, build, generated, interp>>

BlankIdOf(v, id) ==
    /\ last' = [op |-> "blank_id", v |-> v, arg |-> id, res |-> blank_id(vocs[v], id)]
    /\ UNCHANGED <<types, vocs, issued, hasher, gen, build, generated, interp>>

Next ==
    \/ \E v \in Vocs, x \in Iris : Insert(v, x)
    \/ \E v \in Vocs, x \in Iris : Get(v, x)
    \/ \E v \in Vocs, id \in IriIds(types.I) : IriOf(v, id)
    \/ \E v \in Vocs, x \in BlankIds : InsertBlankId(v, x)
    \/ \E v \in Vocs, x \in BlankIds : GetBlankId(v, x)
    \/ \E v \in Vocs, id \in BlankIdIds(types.B) : BlankIdOf(v, id)

Spec == Init /\ [][Next]_vars

(***************************************************************************)
(* Hashing.  The hasher is the sequence of the writes it received.         *)
(***************************************************************************)
WriteUsize(n) == [w |-> "usize", n |-> n]
WriteDiscriminant(n) == [w |-> "isize", n |-> n]
WriteStr(s) == [w |-> "str", s |-> s]

\* The values of Id<I, B>.
IdBlank(b) == [variant |-> "Blank", payload |-> b]
IdIri(i) == [variant |-> "Iri", payload |-> i]
\* The values of Term<I, L> (src/term/mod.rs) and of Term<I, B, L> (src/term.rs).
TermId(id) == [variant |-> "Id", payload |-> id]
TermLiteral(l) == [variant |-> "Literal", payload |-> l]
\* The values of literal::Type<I, L> and of Literal<T, S>.
TypeAny(i) == [variant |-> "Any", payload |-> i]
TypeLangString(t) == [variant |-> "LangString", payload |-> t]
Literal(value, type_) == [value |-> value, type_ |-> type_]

\* #[derive(Hash)] of Index, IriIndex<I> and BlankIdIndex<B>: Index(usize) writes
\* its field, the enums write their discriminant and then the field.
IndexHash(T, id, state) ==
    IF T = "Index" THEN Append(state, WriteUsize(id.i))
    ELSE IF id.tag = "Index"
         THEN state \o <<WriteDiscriminant(0), WriteUsize(id.i)>>
    ELSE IF id.tag = "Iri"
         THEN state \o <<WriteDiscriminant(1), WriteStr(id.iri)>>
    ELSE state \o <<WriteDiscriminant(1), WriteStr(id.blank)>>

\* #[derive(Hash)] of literal::Type<I, L>.
TypeHash(T, ty, state) ==
    IF ty.variant = "Any"
    THEN IndexHash(T, ty.payload, Append(state, WriteDiscriminant(0)))
    ELSE state \o <<WriteDiscriminant(1), WriteStr(ty.payload)>>

\* #[derive(Hash)] of Literal<T, S>: value, then type_.
LiteralHash(T, l, state) == TypeHash(T, l.type_, Append(state, WriteStr(l.value)))

\* Hash for Id<I, B> as #[derive(Hash)] would write it: discriminant first.
IdHashDerived(ts, id, state) ==
    IF id.variant = "Blank"
    THEN IndexHash(ts.B, id.payload, Append(state, WriteDiscriminant(0)))
    ELSE IndexHash(ts.I, id.payload, Append(state, WriteDiscriminant(1)))

\* Hash for Id<I, B>.
IdHash(ts, id, state) ==
    IF id.variant = "Blank" THEN IndexHash(ts.B, id.payload, state)
    ELSE IndexHash(ts.I, id.payload, state)

\* Hash for Term<I, L> (src/term/mod.rs).
TermHash(ts, t, state) ==
    IF t.variant = "Id" THEN IdHash(ts, t.payload, state)
    ELSE LiteralHash(ts.I, t.payload, state)

\* Hash for Term<I, B, L> (src/term.rs).
Term3Hash(ts, t, state) ==
    IF t.variant = "Blank" THEN IndexHash(ts.B, t.payload, state)
    ELSE IF t.variant = "Iri" THEN IndexHash(ts.I, t.payload, state)
    ELSE LiteralHash(ts.I, t.payload, state)

\* The values hashed.
HashIriIds(T) == {id \in IriIds(T) : id.tag = "Index" => id.i <= 1}
HashBlankIdIds(T) == {id \in BlankIdIds(T) : id.tag = "Index" => id.i <= 1}
Ids(ts) == {IdBlank(b) : b \in HashBlankIdIds(ts.B)} \cup {IdIri(i) : i \in HashIriIds(ts.I)}
Literals(ts) ==
    {Literal("v", TypeAny(i)) : i \in HashIriIds(ts.I)} \cup {Literal("v", TypeLangString("en"))}
Terms(ts) == {TermId(id) : id \in Ids(ts)} \cup {TermLiteral(l) : l \in Literals(ts)}
Terms3(ts) ==
    {IdBlank(b) : b \in HashBlankIdIds(ts.B)} \cup {IdIri(i) : i \in HashIriIds(ts.I)}
        \cup {TermLiteral(l) : l \in Literals(ts)}

HashId(id) ==
    /\ Len(hasher) < MaxHasherLen
    /\ hasher' = IdHash(types, id, hasher)
    /\ last' = [op |-> "Id::hash", arg |-> id, before |-> hasher]
    /\ UNCHANGED <<types, vocs, issued, gen, build, generated, interp>>

HashTerm(t) ==
    /\ Len(hasher) < MaxHasherLen
    /\ hasher' = TermHash(types, t, hasher)
    /\ last' = [op |-> "Term::hash", arg |-> t, before |-> hasher]
    /\ UNCHANGED <<types, vocs, issued, gen, build, generated, interp>>

HashTerm3(t) ==
    /\ Len(hasher) < MaxHasherLen
    /\ hasher' = Term3Hash(types, t, hasher)
    /\ last' = [op |-> "Term3::hash", arg |-> t, before |-> hasher]
    /\ UNCHANGED <<types, vocs, issued, gen, build, generated, interp>>

NextHash ==
    \/ \E id \in Ids(types) : HashId(id)
    \/ \E t \in Terms(types) : HashTerm(t)
    \/ \E t \in Terms3(types) : HashTerm3(t)

SpecHash == Init /\ [][NextHash]_vars

(***************************************************************************)
(* Properties of the interning engine.                                     *)
(***************************************************************************)

\* C1: insertion is injective.  In one vocabulary instance two distinct
\* lexical IRIs never received the same identifier, the identifier an insert
\* returns differs from the identifier of every other lexical IRI inserted,
\* and the same holds for blank node identifiers with insert_blank_id.
C1_InsertInjective ==
    \A v \in Vocs :
        /\ \A a, b \in DOMAIN issued[v].iri :
               a # b => issued[v].iri[a] # issued[v].iri[b]
        /\ \A a, b \in DOMAIN issued[v].blank :
               a # b => issued[v].blank[a] # issued[v].blank[b]
        /\ (last.op = "insert" /\ last.v = v) =>
               \A b \in DOMAIN issued[v].iri \ {last.arg} : issued[v].iri[b] # last.res
        /\ (last.op = "insert_blank_id" /\ last.v = v) =>
               \A b \in DOMAIN issued[v].blank \ {last.arg} : issued[v].blank[b] # last.res

\* Two distinct IRIs and two distinct blank node identifiers were interned
\* dynamically in one instance, the last of them by the call just made.
C1_Witness ==
    /\ types = [I |-> "Index", B |-> "Index"]
    /\ last.op \in {"insert", "insert_blank_id"}
    /\ DOMAIN issued[last.v].iri = Iris
    /\ DOMAIN issued[last.v].blank = BlankIds
    /\ Len(vocs[last.v].allocated) = 2
    /\ Len(vocs[last.v].blank_allocated) = 2

\* C2: insertion is idempotent.  Every insert(x) returns the identifier the
\* first insert(x) on that instance returned, whatever happened in between,
\* and an insert of a lexical IRI inserted before changes neither the arenas
\* nor the lookup maps.
C2_InsertIdempotent ==
    /\ [](last.op = "insert" => last.res = issued[last.v].iri[last.arg])
    /\ [][(last'.op = "insert" /\ last'.arg \in DOMAIN issued[last'.v].iri)
              => vocs' = vocs]_vars

\* An IRI was inserted a second time, after another IRI was interned behind it.
C2_Witness ==
    /\ last.op = "insert"
    /\ Len(vocs[last.v].allocated) = 2
    /\ vocs[last.v].allocated[1] = last.arg
    /\ last.res = IndexFrom(0)

\* C3: round trip.  The identifier insert(x) returned resolves to Some(x) on
\* the same instance, right after the insertion and in every later state;
\* likewise blank_id of the identifier insert_blank_id(b) returned is Some(b).
C3_RoundTrip ==
    /\ \A v \in Vocs :
        /\ \A x \in DOMAIN issued[v].iri : iri(vocs[v], issued[v].iri[x]) = Some(x)
        /\ \A b \in DOMAIN issued[v].blank :
               blank_id(vocs[v], issued[v].blank[b]) = Some(b)
    /\ last.op = "insert" => iri(vocs[last.v], last.res) = Some(last.arg)
    /\ last.op = "insert_blank_id" => blank_id(vocs[last.v], last.res) = Some(last.arg)
    /\ (last.op = "iri" /\ last.arg \in Range(issued[last.v].iri)) =>
           /\ last.res.some
           /\ issued[last.v].iri[last.res.val] = last.arg
    /\ (last.op = "blank_id" /\ last.arg \in Range(issued[last.v].blank)) =>
           /\ last.res.some
           /\ issued[last.v].blank[last.res.val] = last.arg

\* iri() resolved the identifier of the first interned IRI after a second IRI
\* was interned, in an instance that also holds two blank node identifiers.
C3_Witness ==
    /\ last.op = "iri"
    /\ Len(vocs[last.v].allocated) = 2
    /\ Len(vocs[last.v].blank_allocated) = 2
    /\ last.arg = IndexFrom(0)
    /\ last.res = Some(vocs[last.v].allocated[1])

\* get / get_blank_id take &self: the call changes no arena and no lookup map.
GetIsPure ==
    [][last'.op \in {"get", "get_blank_id"} => (vocs' = vocs /\ issued' = issued)]_vars

\* C4 as stated: get is a pure lookup and returns None for every lexical IRI
\* never inserted into the instance, inline-classified IRIs included; the
\* same for get_blank_id.
C4_GetNoneIfNeverInserted ==
    /\ GetIsPure
    /\ []((last.op = "get" /\ last.arg \notin DOMAIN issued[last.v].iri)
              => last.res = None)
    /\ []((last.op = "get_blank_id" /\ last.arg \notin DOMAIN issued[last.v].blank)
              => last.res = None)

\* C4 (amended): get is a pure lookup; it returns None for every lexical IRI
\* that was never inserted into the instance and has no inline
\* classification, and Some of the inline identifier for every IRI with an
\* inline classification, inserted or not; the same for get_blank_id.
C4_GetPureLookup ==
    /\ GetIsPure
    /\ [](last.op = "get" =>
            IF TryFromIri(types.I, last.arg).ok
            THEN last.res = Some(IriIndexIri(last.arg))
            ELSE last.arg \notin DOMAIN issued[last.v].iri => last.res = None)
    /\ [](last.op = "get_blank_id" =>
            IF TryFromBlankId(types.B, last.arg).ok
            THEN last.res = Some(BlankIdIndexBlankId(last.arg))
            ELSE last.arg \notin DOMAIN issued[last.v].blank => last.res = None)

\* get was called with a never inserted IRI without inline classification
\* on an instance that already holds another IRI.
C4_Witness ==
    /\ last.op = "get"
    /\ ~TryFromIri(types.I, last.arg).ok
    /\ last.arg \notin DOMAIN issued[last.v].iri
    /\ vocs[last.v].allocated # <<>>
    /\ last.res = None

\* C5 as stated: an identifier that insert (insert_blank_id) of one instance
\* produced and that the other instance never produced resolves to None in
\* the other instance.
C5_ForeignResolvesNone ==
    /\ \A v, w \in Vocs :
        /\ \A id \in Range(issued[v].iri) \ Range(issued[w].iri) :
               iri(vocs[w], id) = None
        /\ \A id \in Range(issued[v].blank) \ Range(issued[w].blank) :
               blank_id(vocs[w], id) = None
    /\ \A v \in Vocs :
        /\ (last.op = "iri" /\ last.arg \in Range(issued[v].iri) \ Range(issued[last.v].iri))
               => last.res = None
        /\ (last.op = "blank_id"
                /\ last.arg \in Range(issued[v].blank) \ Range(issued[last.v].blank))
               => last.res = None

\* C5 (amended): a dynamic index identifier that insert (insert_blank_id) of
\* one instance produced and that the other instance never produced resolves
\* to None in the other instance; an inline identifier resolves to its own
\* lexical form in every instance.
C5_ForeignIndexResolvesNone ==
    /\ \A v, w \in Vocs :
        /\ \A id \in Range(issued[v].iri) \ Range(issued[w].iri) :
               iri(vocs[w], id) = IF id.tag = "Index" THEN None ELSE Some(id.iri)
        /\ \A id \in Range(issued[v].blank) \ Range(issued[w].blank) :
               blank_id(vocs[w], id) = IF id.tag = "Index" THEN None ELSE Some(id.blank)
    /\ \A v \in Vocs :
        /\ (last.op = "iri" /\ last.arg \in Range(issued[v].iri) \ Range(issued[last.v].iri))
               => last.res = IF last.arg.tag = "Index" THEN None ELSE Some(last.arg.iri)
        /\ (last.op = "blank_id"
                /\ last.arg \in Range(issued[v].blank) \ Range(issued[last.v].blank))
               => last.res = IF last.arg.tag = "Index" THEN None ELSE Some(last.arg.blank)

\* iri() of a non-empty instance was given the dynamic index of the second
\* IRI of the other instance, which it never produced itself.
C5_Witness ==
    /\ last.op = "iri"
    /\ last.arg = IndexFrom(1)
    /\ Len(vocs[last.v].allocated) = 1
    /\ \E v \in Vocs \ {last.v} : last.arg \in Range(issued[v].iri)
    /\ last.res = None

\* C6: an insert of a lexical form without inline classification that is
\* absent from the lookup map returns the arena length before the call,
\* appends exactly that form to the arena and records form -> index in the
\* map (likewise insert_blank_id); so in every state the dynamic indices
\* handed out by an instance are exactly 0 .. arena length - 1.
C6_FreshIndexIsArenaLength ==
    /\ [][(last'.op = "insert"
             /\ ~TryFromIri(types.I, last'.arg).ok
             /\ last'.arg \notin DOMAIN vocs[last'.v].map)
          => LET old == vocs[last'.v]
                 index == Len(old.allocated)
             IN /\ last'.res = IndexFrom(index)
                /\ vocs' = [vocs EXCEPT ![last'.v] =
                              [old EXCEPT !.allocated = Append(old.allocated, last'.arg),
                                          !.map = (last'.arg :> index) @@ old.map]]]_vars
    /\ [][(last'.op = "insert_blank_id"
             /\ ~TryFromBlankId(types.B, last'.arg).ok
             /\ last'.arg \notin DOMAIN vocs[last'.v].blank_map)
          => LET old == vocs[last'.v]
                 index == Len(old.blank_allocated)
             IN /\ last'.res = IndexFrom(index)
                /\ vocs' = [vocs EXCEPT ![last'.v] =
                              [old EXCEPT !.blank_allocated =
                                              Append(old.blank_allocated, last'.arg),
                                          !.blank_map =
                                              (last'.arg :> index) @@ old.blank_map]]]_vars
    /\ [](\A v \in Vocs :
            /\ {id.i : id \in {d \in Range(issued[v].iri) : d.tag = "Index"}}
                   = 0 .. (Len(vocs[v].allocated) - 1)
            /\ {id.i : id \in {d \in Range(issued[v].blank) : d.tag = "Index"}}
                   = 0 .. (Len(vocs[v].blank_allocated) - 1))

\* The second IRI of an instance was just interned and received index 1.
C6_Witness ==
    /\ last.op = "insert"
    /\ last.res = IndexFrom(1)
    /\ Len(vocs[last.v].allocated) = 2
    /\ vocs[last.v].allocated[2] = last.arg
    /\ vocs[last.v].map[last.arg] = 1

\* C7: the arenas are append-only and indices are stable.  No step shortens
\* an arena or changes an existing entry, and an identifier that resolves to
\* Some(x) before a step resolves to Some(x) after it.
C7_ArenaAppendOnly ==
    [][\A v \in Vocs :
         /\ Len(vocs'[v].allocated) >= Len(vocs[v].allocated)
         /\ SubSeq(vocs'[v].allocated, 1, Len(vocs[v].allocated)) = vocs[v].allocated
         /\ Len(vocs'[v].blank_allocated) >= Len(vocs[v].blank_allocated)
         /\ SubSeq(vocs'[v].blank_allocated, 1, Len(vocs[v].blank_allocated))
                = vocs[v].blank_allocated
         /\ \A id \in IriIds(types.I) :
                iri(vocs[v], id).some => iri(vocs'[v], id) = iri(vocs[v], id)
         /\ \A id \in BlankIdIds(types.B) :
                blank_id(vocs[v], id).some => blank_id(vocs'[v], id) = blank_id(vocs[v], id)
      ]_vars

\* Index 0 was resolved after the arena had grown to two entries.
C7_Witness ==
    /\ last.op = "iri"
    /\ last.arg = IndexFrom(0)
    /\ last.res.some
    /\ Len(vocs[last.v].allocated) = 2
    /\ Len(vocs[last.v].blank_allocated) >= 1

\* C8: inline fast path.  An insert of a lexical form that the identifier
\* type classifies as inline returns the inline identifier and changes no
\* arena and no map, and iri() of an inline identifier returns its IRI
\* whatever the arena holds.
C8_InlineFastPath ==
    /\ [][(last'.op = "insert" /\ TryFromIri(types.I, last'.arg).ok)
            => (last'.res = IriIndexIri(last'.arg) /\ vocs' = vocs)]_vars
    /\ []((last.op = "iri" /\ last.arg.tag = "Iri") => last.res = Some(last.arg.iri))

\* An inline identifier obtained from insert was resolved by an instance
\* whose IRI arena is empty.
C8_Witness ==
    /\ types.I = "IriIndex"
    /\ last.op = "iri"
    /\ last.arg \in Range(issued[last.v].iri)
    /\ last.arg.tag = "Iri"
    /\ vocs[last.v].allocated = <<>>
    /\ last.res = Some("k")

\* C9: IRI and blank node interning are independent.  insert changes no
\* blank arena or blank map, insert_blank_id changes no IRI arena or map, and
\* the first form interned dynamically in each arena has index 0 whatever
\* the other arena holds.
C9_IriBlankIndependent ==
    /\ [][\A v \in Vocs :
            /\ last'.op = "insert" =>
                   /\ vocs'[v].blank_allocated = vocs[v].blank_allocated
                   /\ vocs'[v].blank_map = vocs[v].blank_map
            /\ last'.op = "insert_blank_id" =>
                   /\ vocs'[v].allocated = vocs[v].allocated
                   /\ vocs'[v].map = vocs[v].map
            /\ (last'.op = "insert" /\ vocs[v].allocated = <<>> /\ vocs'[v].allocated # <<>>)
                   => last'.res = IndexFrom(0)
            /\ (last'.op = "insert_blank_id" /\ vocs[v].blank_allocated = <<>>
                    /\ vocs'[v].blank_allocated # <<>>)
                   => last'.res = IndexFrom(0)]_vars
    /\ [](\A v \in Vocs :
            /\ vocs[v].allocated # <<>> =>
                   /\ vocs[v].map[vocs[v].allocated[1]] = 0
                   /\ issued[v].iri[vocs[v].allocated[1]] = IndexFrom(0)
            /\ vocs[v].blank_allocated # <<>> =>
                   /\ vocs[v].blank_map[vocs[v].blank_allocated[1]] = 0
                   /\ issued[v].blank[vocs[v].blank_allocated[1]] = IndexFrom(0))

\* The first blank node identifier of an instance was interned, with index
\* 0, when the instance already held two IRIs.
C9_Witness ==
    /\ last.op = "insert_blank_id"
    /\ last.res = IndexFrom(0)
    /\ Len(vocs[last.v].allocated) = 2
    /\ vocs[last.v].blank_allocated = <<last.arg>>

(***************************************************************************)
(* Properties of the Hash implementations.                                 *)
(***************************************************************************)

\* C10: hashing is transparent.  What Id::Iri(i) (Id::Blank(b)) feeds to the
\* hasher is exactly what i (b) alone feeds, what Term::Id(id)
\* (Term::Literal(l)) feeds is what id (l) alone feeds, in both Term types,
\* and so no variant discriminant of Id or Term reaches the hasher.
C10_HashTransparent ==
    /\ last.op = "Id::hash" =>
           hasher = IndexHash(IF last.arg.variant = "Iri" THEN types.I ELSE types.B,
                              last.arg.payload, last.before)
    /\ last.op = "Term::hash" =>
           /\ last.arg.variant = "Id" =>
                  /\ hasher = IdHash(types, last.arg.payload, last.before)
                  /\ hasher = IndexHash(IF last.arg.payload.variant = "Iri"
                                            THEN types.I ELSE types.B,
                                        last.arg.payload.payload, last.before)
           /\ last.arg.variant = "Literal" =>
                  hasher = LiteralHash(types.I, last.arg.payload, last.before)
    /\ last.op = "Term3::hash" =>
           hasher = IF last.arg.variant = "Blank"
                        THEN IndexHash(types.B, last.arg.payload, last.before)
                    ELSE IF last.arg.variant = "Iri"
                        THEN IndexHash(types.I, last.arg.payload, last.before)
                    ELSE LiteralHash(types.I, last.arg.payload, last.before)

\* A Term::Id(Id::Iri(i)) holding an inline IriIndex was hashed into a hasher
\* that had already received data.
C10_Witness ==
    /\ last.op = "Term::hash"
    /\ last.arg.variant = "Id"
    /\ last.arg.payload.variant = "Iri"
    /\ last.arg.payload.payload.tag = "Iri"
    /\ last.before # <<>>
    /\ Len(hasher) = Len(last.before) + 2

(***************************************************************************)
(* Comparison.  Ordering is "Less", "Equal" or "Greater"; partial_cmp       *)
(* returns an Option of it.                                                *)
(***************************************************************************)
\* usize::cmp.
UsizeCmp(a, b) == IF a < b THEN "Less" ELSE IF a = b THEN "Equal" ELSE "Greater"

\* The strings of the model in byte order, and str::cmp on them.
StrOrder == <<"_:s", "_:x", "a", "en", "k", "v", "w">>
StrRank(x) == CHOOSE n \in 1..Len(StrOrder) : StrOrder[n] = x
StrCmp(a, b) == UsizeCmp(StrRank(a), StrRank(b))

\* #[derive(PartialEq)] of Index, IriIndex<I> and BlankIdIndex<B>.
IndexEq(T, a, b) ==
    IF T = "Index" THEN a.i = b.i
    ELSE IF a.tag # b.tag THEN FALSE
    ELSE IF a.tag = "Index" THEN a.i = b.i
    ELSE IF a.tag = "Iri" THEN a.iri = b.iri
    ELSE a.blank = b.blank

\* #[derive(PartialOrd)] of Index, IriIndex<I> and BlankIdIndex<B>: the enums
\* order the Index variant first, then compare the fields.
IndexPartialCmp(T, a, b) ==
    IF T = "Index" THEN Some(UsizeCmp(a.i, b.i))
    ELSE IF a.tag = "Index" /\ b.tag = "Index" THEN Some(UsizeCmp(a.i, b.i))
    ELSE IF a.tag = "Index" THEN Some("Less")
    ELSE IF b.tag = "Index" THEN Some("Greater")
    ELSE IF a.tag = "Iri" THEN Some(StrCmp(a.iri, b.iri))
    ELSE Some(StrCmp(a.blank, b.blank))

\* #[derive(PartialEq, PartialOrd)] of literal::Type<I, L>.
TypeEq(T, x, y) ==
    IF x.variant # y.variant THEN FALSE
    ELSE IF x.variant = "Any" THEN IndexEq(T, x.payload, y.payload)
    ELSE x.payload = y.payload
TypePartialCmp(T, x, y) ==
    IF x.variant = "Any" /\ y.variant = "Any" THEN IndexPartialCmp(T, x.payload, y.payload)
    ELSE IF x.variant = "Any" THEN Some("Less")
    ELSE IF y.variant = "Any" THEN Some("Greater")
    ELSE Some(StrCmp(x.payload, y.payload))

\* #[derive(PartialEq, PartialOrd)] of Literal<T, S>: value, then type_.
LiteralEq(T, l, m) == l.value = m.value /\ TypeEq(T, l.type_, m.type_)
LiteralPartialCmp(T, l, m) ==
    LET c == Some(StrCmp(l.value, m.value)) IN
    IF c = Some("Equal") THEN TypePartialCmp(T, l.type_, m.type_) ELSE c

\* PartialEq for Id<I, B>.
IdEq(ts, a, b) ==
    IF a.variant = "Blank" /\ b.variant = "Blank" THEN IndexEq(ts.B, a.payload, b.payload)
    ELSE IF a.variant = "Iri" /\ b.variant = "Iri" THEN IndexEq(ts.I, a.payload, b.payload)
    ELSE FALSE

\* PartialOrd for Id with the two arms of the same variant comparing b with a.
IdPartialCmpSwapped(ts, a, b) ==
    IF a.variant = "Blank" /\ b.variant = "Blank"
        THEN IndexPartialCmp(ts.B, b.payload, a.payload)
    ELSE IF a.variant = "Blank" THEN Some("Less")
    ELSE IF a.variant = "Iri" /\ b.variant = "Iri"
        THEN IndexPartialCmp(ts.I, b.payload, a.payload)
    ELSE Some("Greater")

\* PartialOrd for Id with Iri ordered before Blank.
IdPartialCmpIriFirst(ts, a, b) ==
    IF a.variant = "Blank" /\ b.variant = "Blank"
        THEN IndexPartialCmp(ts.B, a.payload, b.payload)
    ELSE IF a.variant = "Blank" THEN Some("Greater")
    ELSE IF a.variant = "Iri" /\ b.variant = "Iri"
        THEN IndexPartialCmp(ts.I, a.payload, b.payload)
    ELSE Some("Less")

\* PartialOrd for Id<I, B>.
IdPartialCmp(ts, a, b) ==
    IF a.variant = "Blank" /\ b.variant = "Blank"
        THEN IndexPartialCmp(ts.B, a.payload, b.payload)
    ELSE IF a.variant = "Blank" THEN Some("Less")
    ELSE IF a.variant = "Iri" /\ b.variant = "Iri"
        THEN IndexPartialCmp(ts.I, a.payload, b.payload)
    ELSE Some("Greater")

\* PartialEq and PartialOrd for Subject<I, B> (src/term.rs).
SubjectEq(ts, a, b) ==
    IF a.variant = "Blank" /\ b.variant = "Blank" THEN IndexEq(ts.B, a.payload, b.payload)
    ELSE IF a.variant = "Iri" /\ b.variant = "Iri" THEN IndexEq(ts.I, a.payload, b.payload)
    ELSE FALSE
SubjectPartialCmp(ts, a, b) ==
    IF a.variant = "Blank" /\ b.variant = "Blank"
        THEN IndexPartialCmp(ts.B, a.payload, b.payload)
    ELSE IF a.variant = "Blank" THEN Some("Less")
    ELSE IF a.variant = "Iri" /\ b.variant = "Iri"
        THEN IndexPartialCmp(ts.I, a.payload, b.payload)
    ELSE Some("Greater")

\* PartialEq for Term<I, L> (src/term/mod.rs).
TermEq(ts, a, b) ==
    IF a.variant = "Id" /\ b.variant = "Id" THEN IdEq(ts, a.payload, b.payload)
    ELSE IF a.variant = "Literal" /\ b.variant = "Literal"
        THEN LiteralEq(ts.I, a.payload, b.payload)
    ELSE FALSE

\* PartialOrd for Term<I, L> (src/term/mod.rs).
TermPartialCmp(ts, a, b) ==
    IF a.variant = "Id" /\ b.variant = "Id" THEN IdPartialCmp(ts, a.payload, b.payload)
    ELSE IF a.variant = "Id" /\ b.variant = "Literal" THEN Some("Less")
    ELSE IF a.variant = "Literal" /\ b.variant = "Literal"
        THEN LiteralPartialCmp(ts.I, a.payload, b.payload)
    ELSE Some("Greater")

\* PartialEq for Term<I, B, L> (src/term.rs).
Term3Eq(ts, a, b) ==
    IF a.variant = "Blank" /\ b.variant = "Blank" THEN IndexEq(ts.B, a.payload, b.payload)
    ELSE IF a.variant = "Iri" /\ b.variant = "Iri" THEN IndexEq(ts.I, a.payload, b.payload)
    ELSE IF a.variant = "Literal" /\ b.variant = "Literal"
        THEN LiteralEq(ts.I, a.payload, b.payload)
    ELSE FALSE

\* PartialOrd for Term<I, B, L> without the (Iri, Blank) => Greater arm.
Term3PartialCmpNoIriBlankArm(ts, a, b) ==
    IF a.variant = "Blank" /\ b.variant = "Blank"
        THEN IndexPartialCmp(ts.B, a.payload, b.payload)
    ELSE IF a.variant = "Blank" THEN Some("Less")
    ELSE IF a.variant = "Iri" /\ b.variant = "Iri"
        THEN IndexPartialCmp(ts.I, a.payload, b.payload)
    ELSE IF a.variant = "Iri" THEN Some("Less")
    ELSE IF a.variant = "Literal" /\ b.variant = "Literal"
        THEN LiteralPartialCmp(ts.I, a.payload, b.payload)
    ELSE Some("Greater")

\* PartialOrd for Term<I, B, L> (src/term.rs).
Term3PartialCmp(ts, a, b) ==
    IF a.variant = "Blank" /\ b.variant = "Blank"
        THEN IndexPartialCmp(ts.B, a.payload, b.payload)
    ELSE IF a.variant = "Blank" THEN Some("Less")
    ELSE IF a.variant = "Iri" /\ b.variant = "Iri"
        THEN IndexPartialCmp(ts.I, a.payload, b.payload)
    ELSE IF a.variant = "Iri" /\ b.variant = "Blank" THEN Some("Greater")
    ELSE IF a.variant = "Iri" THEN Some("Less")
    ELSE IF a.variant = "Literal" /\ b.variant = "Literal"
        THEN LiteralPartialCmp(ts.I, a.payload, b.payload)
    ELSE Some("Greater")

\* The literals compared: two values, typed and language-tagged.
CmpLiterals(ts) == Literals(ts) \cup {Literal("w", TypeLangString("en"))}
CmpTerms(ts) == {TermId(id) : id \in Ids(ts)} \cup {TermLiteral(l) : l \in CmpLiterals(ts)}
CmpTerms3(ts) ==
    {IdBlank(b) : b \in HashBlankIdIds(ts.B)} \cup {IdIri(i) : i \in HashIriIds(ts.I)}
        \cup {TermLiteral(l) : l \in CmpLiterals(ts)}

(***************************************************************************)
(* Quad<S, P, O, G>(S, P, O, Option<G>), here with S = Id, P = I,           *)
(* O = Term<Id, Literal> and G = Id.                                       *)
(***************************************************************************)
Quad(s, p, o, g) == <<s, p, o, g>>
Triple(s, p, o) == <<s, p, o>>

\* PartialEq for Quad that leaves the graph component out.
QuadEqNoGraph(ts, q, r) ==
    /\ IdEq(ts, q[1], r[1])
    /\ IndexEq(ts.I, q[2], r[2])
    /\ TermEq(ts, q[3], r[3])

\* PartialEq for Quad.
QuadEq(ts, q, r) ==
    /\ IdEq(ts, q[1], r[1])
    /\ IndexEq(ts.I, q[2], r[2])
    /\ TermEq(ts, q[3], r[3])
    /\ IF q[4].some /\ r[4].some THEN IdEq(ts, q[4].val, r[4].val)
       ELSE IF ~q[4].some /\ ~r[4].some THEN TRUE
       ELSE FALSE

\* partial_cmp for Quad that orders an absent graph after a present one.
QuadPartialCmpNoneGreater(ts, q, r) ==
    LET c0 == IdPartialCmp(ts, q[1], r[1])
        c1 == IndexPartialCmp(ts.I, q[2], r[2])
        c2 == TermPartialCmp(ts, q[3], r[3])
    IN IF c0 = Some("Equal")
       THEN IF c1 = Some("Equal")
            THEN IF c2 = Some("Equal")
                 THEN IF q[4].some /\ r[4].some THEN IdPartialCmp(ts, q[4].val, r[4].val)
                      ELSE IF q[4].some THEN Some("Less")
                      ELSE IF r[4].some THEN Some("Greater")
                      ELSE Some("Equal")
                 ELSE c2
            ELSE c1
       ELSE c0

\* PartialOrd for Quad.
QuadPartialCmp(ts, q, r) ==
    LET c0 == IdPartialCmp(ts, q[1], r[1])
        c1 == IndexPartialCmp(ts.I, q[2], r[2])
        c2 == TermPartialCmp(ts, q[3], r[3])
    IN IF c0 = Some("Equal")
       THEN IF c1 = Some("Equal")
            THEN IF c2 = Some("Equal")
                 THEN IF q[4].some /\ r[4].some THEN IdPartialCmp(ts, q[4].val, r[4].val)
                      ELSE IF q[4].some THEN Some("Greater")
                      ELSE IF r[4].some THEN Some("Less")
                      ELSE Some("Equal")
                 ELSE c2
            ELSE c1
       ELSE c0

\* The quads of the model.
QuadSubjects == {IdBlank(IndexFrom(0)), IdIri(IndexFrom(0))}
QuadPredicates == {IndexFrom(0), IndexFrom(1)}
QuadObjects ==
    {TermId(IdIri(IndexFrom(0))), TermLiteral(Literal("v", TypeLangString("en")))}
QuadGraphs == {None} \cup {Some(g) : g \in QuadSubjects}
Quads ==
    {Quad(s, p, o, g) : s \in QuadSubjects, p \in QuadPredicates,
                        o \in QuadObjects, g \in QuadGraphs}

(***************************************************************************)
(* The comparison calls.  They are pure, so a behaviour makes one call.    *)
(***************************************************************************)
CompareId(a, b) ==
    /\ last.op = "new"
    /\ last' = [op |-> "Id::cmp", a |-> a, b |-> b,
                eq |-> IdEq(types, a, b), cmp |-> IdPartialCmp(types, a, b)]
    /\ UNCHANGED <<types, vocs, issued, hasher, gen, build, generated, interp>>

CompareSubject(a, b) ==
    /\ last.op = "new"
    /\ last' = [op |-> "Subject::cmp", a |-> a, b |-> b,
                eq |-> SubjectEq(types, a, b), cmp |-> SubjectPartialCmp(types, a, b)]
    /\ UNCHANGED <<types, vocs, issued, hasher, gen, build, generated, interp>>

CompareTerm(a, b) ==
    /\ last.op = "new"
    /\ last' = [op |-> "Term::cmp", a |-> a, b |-> b,
                eq |-> TermEq(types, a, b), cmp |-> TermPartialCmp(types, a, b)]
    /\ UNCHANGED <<types, vocs, issued, hasher, gen, build, generated, interp>>

CompareTerm3(a, b) ==
    /\ last.op = "new"
    /\ last' = [op |-> "Term3::cmp", a |-> a, b |-> b,
                eq |-> Term3Eq(types, a, b), cmp |-> Term3PartialCmp(types, a, b)]
    /\ UNCHANGED <<types, vocs, issued, hasher, gen, build, generated, interp>>

CompareQuad(q, r) ==
    /\ last.op = "new"
    /\ last' = [op |-> "Quad::cmp", a |-> q, b |-> r,
                eq |-> QuadEq(types, q, r), cmp |-> QuadPartialCmp(types, q, r)]
    /\ UNCHANGED <<types, vocs, issued, hasher, gen, build, generated, interp>>

NextCmp ==
    \/ \E a, b \in Ids(types) : CompareId(a, b)
    \/ \E a, b \in Ids(types) : CompareSubject(a, b)
    \/ \E a, b \in CmpTerms(types) : CompareTerm(a, b)
    \/ \E a, b \in CmpTerms3(types) : CompareTerm3(a, b)
    \/ \E q, r \in Quads : CompareQuad(q, r)

SpecCmp == Init /\ [][NextCmp]_vars

(***************************************************************************)
(* Properties of the comparisons.                                          *)
(***************************************************************************)

\* C11: comparison is transparent.  eq and partial_cmp of Term::Id(a) with
\* Term::Id(b) are those of a with b, of Term::Literal(l) with
\* Term::Literal(m) those of l with m, of Id::Iri(i) with Id::Iri(j) those of
\* i with j, and of Id::Blank(x) with Id::Blank(y) those of x with y.
C11_CompareTransparent ==
    /\ (last.op = "Id::cmp" /\ last.a.variant = last.b.variant) =>
           LET T == IF last.a.variant = "Iri" THEN types.I ELSE types.B IN
           /\ last.eq = IndexEq(T, last.a.payload, last.b.payload)
           /\ last.cmp = IndexPartialCmp(T, last.a.payload, last.b.payload)
    /\ (last.op = "Term::cmp" /\ last.a.variant = "Id" /\ last.b.variant = "Id") =>
           /\ last.eq = IdEq(types, last.a.payload, last.b.payload)
           /\ last.cmp = IdPartialCmp(types, last.a.payload, last.b.payload)
           /\ last.a.payload.variant = last.b.payload.variant =>
                  LET T == IF last.a.payload.variant = "Iri" THEN types.I ELSE types.B IN
                  /\ last.eq = IndexEq(T, last.a.payload.payload, last.b.payload.payload)
                  /\ last.cmp = IndexPartialCmp(T, last.a.payload.payload,
                                                last.b.payload.payload)
    /\ (last.op = "Term::cmp" /\ last.a.variant = "Literal" /\ last.b.variant = "Literal") =>
           /\ last.eq = LiteralEq(types.I, last.a.payload, last.b.payload)
           /\ last.cmp = LiteralPartialCmp(types.I, last.a.payload, last.b.payload)

\* Term::Id(Id::Iri(Index 1)) was compared with Term::Id(Id::Iri(Index 0)):
\* not equal, Greater.
C11_Witness ==
    /\ last.op = "Term::cmp"
    /\ last.a = TermId(IdIri(IndexFrom(1)))
    /\ last.b = TermId(IdIri(IndexFrom(0)))
    /\ last.eq = FALSE
    /\ last.cmp = Some("Greater")

\* C12: for Id (and Subject) values, Blank(_) < Iri(_) and Iri(_) > Blank(_)
\* whatever the payloads, and two values of different variants are never
\* equal.
C12_BlankBeforeIri ==
    (last.op \in {"Id::cmp", "Subject::cmp"} /\ last.a.variant # last.b.variant) =>
        /\ last.eq = FALSE
        /\ last.cmp = IF last.a.variant = "Blank" THEN Some("Less") ELSE Some("Greater")

\* Id::Blank(Index 1) was compared with Id::Iri(Index 0): the payloads order
\* the other way, the result is Less.
C12_Witness ==
    /\ last.op = "Id::cmp"
    /\ last.a = IdBlank(IndexFrom(1))
    /\ last.b = IdIri(IndexFrom(0))
    /\ last.cmp = Some("Less")

\* C13: every Term::Id(_) is strictly less than every Term::Literal(_)
\* whatever the payloads, in the three-variant Term Blank < Iri < Literal,
\* and values of different variants are never equal.
C13_IdBeforeLiteral ==
    /\ (last.op = "Term::cmp" /\ last.a.variant # last.b.variant) =>
           /\ last.eq = FALSE
           /\ last.cmp = IF last.a.variant = "Id" THEN Some("Less") ELSE Some("Greater")
    /\ (last.op = "Term3::cmp" /\ last.a.variant # last.b.variant) =>
           LET VariantRank(x) ==
                   IF x.variant = "Blank" THEN 0 ELSE IF x.variant = "Iri" THEN 1 ELSE 2
           IN /\ last.eq = FALSE
              /\ last.cmp = Some(UsizeCmp(VariantRank(last.a), VariantRank(last.b)))

\* In the three-variant Term an Iri was compared with a Blank: Greater.
C13_Witness ==
    /\ last.op = "Term3::cmp"
    /\ last.a.variant = "Iri"
    /\ last.b.variant = "Blank"
    /\ last.cmp = Some("Greater")

\* C14: Quad equality and ordering are structural and lexicographic in the
\* order subject, predicate, object, graph.  Two quads are equal iff the
\* four positions are equal (None graph only with None), and partial_cmp
\* is the comparison of the first position that differs, an absent graph
\* ordered before a present one.
C14_QuadLexicographic ==
    last.op = "Quad::cmp" =>
        LET q == last.a
            r == last.b
            GraphEq == IF q[4].some /\ r[4].some THEN IdEq(types, q[4].val, r[4].val)
                       ELSE q[4].some = r[4].some
            GraphCmp == IF q[4].some /\ r[4].some
                            THEN IdPartialCmp(types, q[4].val, r[4].val)
                        ELSE Some(UsizeCmp(IF q[4].some THEN 1 ELSE 0,
                                           IF r[4].some THEN 1 ELSE 0))
            cs == <<IdPartialCmp(types, q[1], r[1]), IndexPartialCmp(types.I, q[2], r[2]),
                    TermPartialCmp(types, q[3], r[3]), GraphCmp>>
            differing == {n \in 1..4 : cs[n] # Some("Equal")}
        IN /\ last.eq = (/\ IdEq(types, q[1], r[1])
                         /\ IndexEq(types.I, q[2], r[2])
                         /\ TermEq(types, q[3], r[3])
                         /\ GraphEq)
           /\ last.cmp = IF differing = {} THEN Some("Equal")
                         ELSE cs[CHOOSE n \in differing : \A m \in differing : n <= m]
           /\ last.eq = (q = r)

\* Two quads that differ only in the graph, absent against present, were
\* compared: not equal, Less.
C14_Witness ==
    /\ last.op = "Quad::cmp"
    /\ last.a[1] = last.b[1] /\ last.a[2] = last.b[2] /\ last.a[3] = last.b[3]
    /\ ~last.a[4].some
    /\ last.b[4].some
    /\ last.eq = FALSE
    /\ last.cmp = Some("Less")

(***************************************************************************)
(* Quad decomposition and component mapping.  A behaviour makes one call.  *)
(***************************************************************************)
\* Quad::into_parts.
into_parts(q) == <<q[1], q[2], q[3], q[4]>>

\* into_triple that loses the graph component.
into_triple_no_graph(q) == <<Triple(q[1], q[2], q[3]), None>>

\* Quad::into_triple.
into_triple(q) == <<Triple(q[1], q[2], q[3]), q[4]>>

\* Quad::map_subject.
map_subject(q, f) == Quad(f[q[1]], q[2], q[3], q[4])

\* map_predicate that applies the function to the subject's slot.
map_predicate_on_subject(q, f) == Quad(f[q[2]], q[2], q[3], q[4])

\* Quad::map_predicate.
map_predicate(q, f) == Quad(q[1], f[q[2]], q[3], q[4])

\* Quad::map_object.
map_object(q, f) == Quad(q[1], q[2], f[q[3]], q[4])

\* Quad::map_graph.
map_graph(q, f) == Quad(q[1], q[2], q[3], f[q[4]])

\* Quad::map_all.
map_all(q, s, p, o, g) == Quad(s[q[1]], p[q[2]], o[q[3]], g[q[4]])

\* The functions given to the map operations (FnOnce(S) -> U:
\* the constant functions and the identity), by component.
ConstOrId(S, U) == {[x \in S |-> y] : y \in U} \cup {[x \in S |-> x]}
SubjectFns == ConstOrId(QuadSubjects, QuadSubjects)
PredicateFns == ConstOrId(QuadPredicates, QuadSubjects)
ObjectFns == ConstOrId(QuadObjects, QuadObjects)
GraphFns == ConstOrId(QuadGraphs, QuadGraphs)

IntoParts(q) ==
    /\ last.op = "new"
    /\ last' = [op |-> "into_parts", q |-> q, res |-> into_parts(q)]
    /\ UNCHANGED <<types, vocs, issued, hasher, gen, build, generated, interp>>

IntoTriple(q) ==
    /\ last.op = "new"
    /\ last' = [op |-> "into_triple", q |-> q, res |-> into_triple(q)]
    /\ UNCHANGED <<types, vocs, issued, hasher, gen, build, generated, interp>>

MapSubject(q, f) ==
    /\ last.op = "new"
    /\ last' = [op |-> "map_subject", q |-> q, f |-> f, res |-> map_subject(q, f)]
    /\ UNCHANGED <<types, vocs, issued, hasher, gen, build, generated, interp>>

MapPredicate(q, f) ==
    /\ last.op = "new"
    /\ last' = [op |-> "map_predicate", q |-> q, f |-> f, res |-> map_predicate(q, f)]
    /\ UNCHANGED <<types, vocs, issued, hasher, gen, build, generated, interp>>

MapObject(q, f) ==
    /\ last.op = "new"
    /\ last' = [op |-> "map_object", q |-> q, f |-> f, res |-> map_object(q, f)]
    /\ UNCHANGED <<types, vocs, issued, hasher, gen, build, generated, interp>>

MapGraph(q, f) ==
    /\ last.op = "new"
    /\ last' = [op |-> "map_graph", q |-> q, f |-> f, res |-> map_graph(q, f)]
    /\ UNCHANGED <<types, vocs, issued, hasher, gen, build, generated, interp>>

MapAll(q, s, p, o, g) ==
    /\ last.op = "new"
    /\ last' = [op |-> "map_all", q |-> q, s |-> s, p |-> p, o |-> o, g |-> g,
                res |-> map_all(q, s, p, o, g)]
    /\ UNCHANGED <<types, vocs, issued, hasher, gen, build, generated, interp>>

NextQuad ==
    \/ \E q \in Quads : IntoParts(q)
    \/ \E q \in Quads : IntoTriple(q)
    \/ \E q \in Quads, f \in SubjectFns : MapSubject(q, f)
    \/ \E q \in Quads, f \in PredicateFns : MapPredicate(q, f)
    \/ \E q \in Quads, f \in ObjectFns : MapObject(q, f)
    \/ \E q \in Quads, f \in GraphFns : MapGraph(q, f)
    \/ \E q \in Quads, s \in SubjectFns, p \in PredicateFns, o \in ObjectFns, g \in GraphFns :
           MapAll(q, s, p, o, g)

SpecQuad == Init /\ [][NextQuad]_vars

\* C15: quad decomposition round trip.  With (Triple(s, p, o), g) =
\* q.into_triple(), Quad(s, p, o, g) is structurally equal to q, with the
\* graph present or absent; into_parts returns the same four components.
C15_IntoTripleRoundTrip ==
    /\ last.op = "into_triple" =>
           LET t == last.res[1]
               g == last.res[2]
           IN /\ QuadEq(types, Quad(t[1], t[2], t[3], g), last.q)
              /\ Quad(t[1], t[2], t[3], g) = last.q
    /\ last.op = "into_parts" =>
           /\ Len(last.res) = 4
           /\ \A n \in 1..4 : last.res[n] = last.q[n]
           /\ last.res[4] = into_triple(last.q)[2]
           /\ <<last.res[1], last.res[2], last.res[3]>> = into_triple(last.q)[1]

\* A quad with a graph component was decomposed with into_triple.
C15_Witness ==
    /\ last.op = "into_triple"
    /\ last.q[4].some
    /\ last.res[2] = last.q[4]

ResOk(x) == [is_ok |-> TRUE, val |-> x]
ResErr(e) == [is_ok |-> FALSE, err |-> e]

\* IriVocabulary::owned_iri: the lexical IRI of id, or id back when it does
\* not resolve.
owned_iri(voc, id) ==
    LET r == iri(voc, id) IN IF r.some THEN ResOk(r.val) ELSE ResErr(id)

\* BlankIdVocabulary::owned_blank_id.
owned_blank_id(voc, id) ==
    LET r == blank_id(voc, id) IN IF r.some THEN ResOk(r.val) ELSE ResErr(id)

\* The language tag identifiers the vocabulary does not resolve.
ForeignLanguageTags == {"xx"}

\* LanguageTagVocabulary::owned_language_tag: the language tag of the
\* identifier, or the identifier back when the vocabulary does not resolve it.
owned_language_tag(voc, tag) ==
    IF tag \in ForeignLanguageTags THEN ResErr(tag) ELSE ResOk(tag)

\* TryExportId::try_export_id, the fallible extraction of an Id<I, B>.
try_export_id(voc, id) ==
    IF id.variant = "Iri"
    THEN LET r == owned_iri(voc, id.payload) IN
         IF r.is_ok THEN ResOk(IdIri(r.val)) ELSE ResErr(IdIri(r.err))
    ELSE LET r == owned_blank_id(voc, id.payload) IN
         IF r.is_ok THEN ResOk(IdBlank(r.val)) ELSE ResErr(IdBlank(r.err))

\* ExportError<I, L>.
ExportErrorIri(i) == [variant |-> "Iri", payload |-> i]
ExportErrorLangTag(t) == [variant |-> "LangTag", payload |-> t]

\* try_export_literal_type that reports every failure as ExportError::Iri.
try_export_literal_type_all_iri(voc, ty) ==
    IF ty.variant = "Any"
    THEN LET r == owned_iri(voc, ty.payload) IN
         IF r.is_ok THEN ResOk(TypeAny(r.val)) ELSE ResErr(ExportErrorIri(r.err))
    ELSE LET r == owned_language_tag(voc, ty.payload) IN
         IF r.is_ok THEN ResOk(TypeLangString(r.val)) ELSE ResErr(ExportErrorIri(r.err))

\* TryExportLiteralType::try_export_literal_type.
try_export_literal_type(voc, ty) ==
    IF ty.variant = "Any"
    THEN LET r == owned_iri(voc, ty.payload) IN
         IF r.is_ok THEN ResOk(TypeAny(r.val)) ELSE ResErr(ExportErrorIri(r.err))
    ELSE LET r == owned_language_tag(voc, ty.payload) IN
         IF r.is_ok THEN ResOk(TypeLangString(r.val)) ELSE ResErr(ExportErrorLangTag(r.err))

\* TryExportLiteral::try_export_literal.
try_export_literal(voc, l) ==
    LET r == try_export_literal_type(voc, l.type_) IN
    IF r.is_ok THEN ResOk(Literal(l.value, r.val)) ELSE r

\* TryExtractFromVocabulary for Term<I, L>.
TermTryExtract(voc, t) ==
    IF t.variant = "Id"
    THEN LET r == try_export_id(voc, t.payload) IN
         IF r.is_ok THEN ResOk(TermId(r.val)) ELSE ResErr(TermId(r.err))
    ELSE LET r == try_export_literal(voc, t.payload) IN
         IF r.is_ok THEN ResOk(TermLiteral(r.val)) ELSE ResErr(TermLiteral(r.err))

\* TryExtractFromVocabulary for Option<T>, T an Id<I, B>: None is Ok(None).
OptionTryExtract(voc, g) ==
    IF g.some
    THEN LET r == try_export_id(voc, g.val) IN
         IF r.is_ok THEN ResOk(Some(r.val)) ELSE r
    ELSE ResOk(None)

\* QuadExportFailed<S, P, O, G>.
QuadExportFailed(component, cause) == [variant |-> component, payload |-> cause]

\* try_extract_from_vocabulary that tags the object's failure as a graph
\* label failure.
QuadTryExtractObjectAsGraph(voc, q) ==
    LET s == try_export_id(voc, q[1])
        p == owned_iri(voc, q[2])
        o == TermTryExtract(voc, q[3])
        g == OptionTryExtract(voc, q[4])
    IN IF ~s.is_ok THEN ResErr(QuadExportFailed("Subject", s.err))
       ELSE IF ~p.is_ok THEN ResErr(QuadExportFailed("Predicate", p.err))
       ELSE IF ~o.is_ok THEN ResErr(QuadExportFailed("Graph", o.err))
       ELSE IF ~g.is_ok THEN ResErr(QuadExportFailed("Graph", g.err))
       ELSE ResOk(Quad(s.val, p.val, o.val, g.val))

\* try_extract_from_vocabulary that extracts the object before the subject.
QuadTryExtractObjectFirst(voc, q) ==
    LET s == try_export_id(voc, q[1])
        p == owned_iri(voc, q[2])
        o == TermTryExtract(voc, q[3])
        g == OptionTryExtract(voc, q[4])
    IN IF ~o.is_ok THEN ResErr(QuadExportFailed("Object", o.err))
       ELSE IF ~s.is_ok THEN ResErr(QuadExportFailed("Subject", s.err))
       ELSE IF ~p.is_ok THEN ResErr(QuadExportFailed("Predicate", p.err))
       ELSE IF ~g.is_ok THEN ResErr(QuadExportFailed("Graph", g.err))
       ELSE ResOk(Quad(s.val, p.val, o.val, g.val))

\* TryExtractFromVocabulary for Quad<S, P, O, G>: the components are
\* extracted in the order subject, predicate, object, graph, and the first
\* failure returns.
QuadTryExtract(voc, q) ==
    LET s == try_export_id(voc, q[1])
        p == owned_iri(voc, q[2])
        o == TermTryExtract(voc, q[3])
        g == OptionTryExtract(voc, q[4])
    IN IF ~s.is_ok THEN ResErr(QuadExportFailed("Subject", s.err))
       ELSE IF ~p.is_ok THEN ResErr(QuadExportFailed("Predicate", p.err))
       ELSE IF ~o.is_ok THEN ResErr(QuadExportFailed("Object", o.err))
       ELSE IF ~g.is_ok THEN ResErr(QuadExportFailed("Graph", g.err))
       ELSE ResOk(Quad(s.val, p.val, o.val, g.val))

\* The quads exported: index 0 resolves once the arena has an entry, index 1
\* once it has two.
ExportIds(ts) == {id \in Ids(ts) : id.payload.tag = "Index" => id.payload.i = 0}
ExportPredicates(ts) == {id \in HashIriIds(ts.I) : id.tag = "Index" => id.i = 0}
ExportObjects(ts) ==
    {TermId(id) : id \in ExportIds(ts) \cup {IdIri(IndexFrom(1))}}
        \cup {TermLiteral(Literal("v", TypeAny(IndexFrom(1)))),
              TermLiteral(Literal("v", TypeLangString("en")))}
ExportGraphs(ts) ==
    {None} \cup {Some(g) : g \in {id \in ExportIds(ts) : id.variant = "Blank"}}
ExportQuads(ts) ==
    {Quad(s, p, o, g) : s \in ExportIds(ts), p \in ExportPredicates(ts),
                        o \in ExportObjects(ts), g \in ExportGraphs(ts)}

TryExtractQuad(v, q) ==
    /\ last' = [op |-> "Quad::try_extract_from_vocabulary", v |-> v, q |-> q,
                res |-> QuadTryExtract(vocs[v], q)]
    /\ UNCHANGED <<types, vocs, issued, hasher, gen, build, generated, interp>>

\* The literals exported.
ExportLiterals(ts) ==
    {Literal("v", TypeAny(i)) : i \in HashIriIds(ts.I)}
        \cup {Literal("v", TypeLangString(t)) : t \in {"en"} \cup ForeignLanguageTags}

TryExportLiteral(v, l) ==
    /\ last' = [op |-> "try_export_literal", v |-> v, arg |-> l,
                res |-> try_export_literal(vocs[v], l)]
    /\ UNCHANGED <<types, vocs, issued, hasher, gen, build, generated, interp>>

NextExport ==
    \/ \E x \in Iris : Insert("A", x)
    \/ \E x \in BlankIds : InsertBlankId("A", x)
    \/ \E q \in ExportQuads(types) : TryExtractQuad("A", q)
    \/ \E l \in ExportLiterals(types) : TryExportLiteral("A", l)

SpecExport == Init /\ [][NextExport]_vars

UsizeBits == 3
UsizeMax == 2^UsizeBits - 1

\* Blank::new_full(prefix, offset).
new_full(prefix, offset) == [prefix |-> prefix, count |-> offset, panicked |-> FALSE]

\* Blank::count.
count(g) == g.count

\* format!("_:{}{}", prefix, count).
FormatBlankId(prefix, n) == "_:" \o prefix \o ToString(n)

\* Blank::next_blank_id: the identifier is formatted from the count, then
\* `self.count += 1` runs.  At count = usize::MAX the addition panics where
\* overflow checks are compiled in and wraps to 0 where they are not.
next_blank_id(g, overflow_checks) ==
    IF g.count = UsizeMax /\ overflow_checks
    THEN [gen |-> [g EXCEPT !.panicked = TRUE], returned |-> FALSE]
    ELSE [gen |-> [g EXCEPT !.count = (g.count + 1) % 2^UsizeBits],
          returned |-> TRUE,
          id |-> FormatBlankId(g.prefix, g.count)]

\* The prefixes and offsets the generator is created with, and the blank
\* node identifiers callers insert on their own.
GenPrefixes == {"", "b"}
GenOffsets == {0, UsizeMax - 1}
GenBlankIds == {"_:b0", "_:s"}
\* A call is made while the generator returned fewer identifiers than this.
MaxCalls == 9

InitGen ==
    /\ types \in {t \in TypeChoices : t.I = "Index"}
    /\ vocs = [v \in Vocs |-> Default]
    /\ issued = [v \in Vocs |-> [iri |-> <<>>, blank |-> <<>>]]
    /\ last = [op |-> "new"]
    /\ hasher = <<>>
    /\ build \in [overflow_checks : BOOLEAN]
    /\ \E p \in GenPrefixes, o \in GenOffsets :
          /\ gen = new_full(p, o)
          /\ generated = [offset |-> o, ids |-> <<>>]
    /\ interp = {}

\* Generator::next for Blank: Id::Blank(vocabulary.insert_blank_id(&self.next_blank_id())).
\* A panic inside next_blank_id unwinds before the vocabulary is touched.
GenNext(v) ==
    LET n == next_blank_id(gen, build.overflow_checks) IN
    /\ ~gen.panicked
    /\ Len(generated.ids) < MaxCalls
    /\ gen' = n.gen
    /\ IF n.returned
       THEN LET r == insert_blank_id(vocs[v], types.B, n.id) IN
            /\ vocs' = [vocs EXCEPT ![v] = r.voc]
            /\ issued' = [issued EXCEPT ![v].blank =
                             IF n.id \in DOMAIN @ THEN @ ELSE (n.id :> r.id) @@ @]
            /\ generated' = [generated EXCEPT !.ids = Append(@, n.id)]
            /\ last' = [op |-> "Generator::next", v |-> v, returned |-> TRUE,
                        blank_id |-> n.id, res |-> IdBlank(r.id),
                        before |-> vocs[v], count |-> count(n.gen)]
       ELSE /\ last' = [op |-> "Generator::next", v |-> v, returned |-> FALSE]
            /\ UNCHANGED <<vocs, issued, generated>>
    /\ UNCHANGED <<types, hasher, build, interp>>

NextGen ==
    \/ GenNext("A")
    \/ \E x \in GenBlankIds : InsertBlankId("A", x)

SpecGen == InitGen /\ [][NextGen]_vars

\* C18: the generator created with prefix p and offset o returns on its k-th
\* call the blank node identifier "_:" p (o + k - 1), count() is o + k after
\* it, and the identifiers one generator returned are pairwise distinct.
C18_SequentialIds ==
    /\ \A k \in 1..Len(generated.ids) :
          generated.ids[k] = FormatBlankId(gen.prefix, generated.offset + k - 1)
    /\ count(gen) = generated.offset + Len(generated.ids)
    /\ \A j, k \in 1..Len(generated.ids) : j # k => generated.ids[j] # generated.ids[k]

\* C19: generator exhaustion is fatal.  A generator started at offset o
\* returns at most usize::MAX - o identifiers, the call after them panics
\* instead of returning, the counter never falls back below its offset and
\* no identifier is handed out twice.
C19_ExhaustionPanics ==
    /\ Len(generated.ids) <= UsizeMax - generated.offset
    /\ count(gen) >= generated.offset
    /\ \A j, k \in 1..Len(generated.ids) : j # k => generated.ids[j] # generated.ids[k]

\* C20: Generator::next returns a fresh identifier registered in the
\* vocabulary.  The returned Id::Blank(id) resolves in the vocabulary to the
\* generated "_:" prefix n, and before the call the vocabulary neither
\* resolved id nor contained that blank node identifier.
C20_NextFreshAndRegistered ==
    (last.op = "Generator::next" /\ last.returned)
    => /\ last.res.variant = "Blank"
       /\ \E n \in 0..UsizeMax : last.blank_id = FormatBlankId(gen.prefix, n)
       /\ blank_id(vocs[last.v], last.res.payload) = Some(last.blank_id)
       /\ blank_id(last.before, last.res.payload) = None
       /\ last.blank_id \notin Range(last.before.blank_allocated)

(***************************************************************************)
(* The identity interpretation `()`: Resource = Term (lexical).            *)
(***************************************************************************)
\* A call is made while fewer calls than this are on record.
MaxInterpCalls == 2

\* The lexical terms interpreted.
InterpIris == Iris
InterpBlankIds == BlankIds
InterpLiterals == {Literal("v", TypeAny("a")), Literal("v", TypeLangString("en"))}
InterpResources ==
    {TermId(IdIri(x)) : x \in InterpIris} \cup {TermId(IdBlank(b)) : b \in InterpBlankIds}
        \cup {TermLiteral(l) : l \in InterpLiterals}

\* IriInterpretation::iri_interpretation and IriInterpretationMut::interpret_iri.
iri_interpretation(x) == Some(TermId(IdIri(x)))
interpret_iri(x) == TermId(IdIri(x))

\* BlankIdInterpretation::blank_id_interpretation.
blank_id_interpretation(b) == Some(TermId(IdBlank(b)))
\* interpret_blank_id that wraps the blank node identifier as an IRI.
interpret_blank_id_as_iri(b) == TermId(IdIri(b))
\* BlankIdInterpretationMut::interpret_blank_id.
interpret_blank_id(b) == TermId(IdBlank(b))

\* LiteralInterpretation::literal_interpretation and
\* LiteralInterpretationMut::interpret_literal.
literal_interpretation(l) == Some(TermLiteral(l))
interpret_literal(l) == TermLiteral(l)

\* iris_of that yields the payload of any Term::Id.
iris_of_any_id(r) == IF r.variant = "Id" THEN <<r.payload.payload>> ELSE <<>>
\* ReverseIriInterpretation::iris_of: the elements the Option iterator yields.
iris_of(r) ==
    IF r.variant = "Id" /\ r.payload.variant = "Iri" THEN <<r.payload.payload>> ELSE <<>>

\* ReverseBlankIdInterpretation::blank_ids_of.
blank_ids_of(r) ==
    IF r.variant = "Id" /\ r.payload.variant = "Blank" THEN <<r.payload.payload>> ELSE <<>>

\* ReverseLiteralInterpretation::literals_of.
literals_of(r) == IF r.variant = "Literal" THEN <<r.payload>> ELSE <<>>

\* A recorded call: the method, the kind of its argument, the argument and
\* the value returned.
Call(op, kind, arg, res) == <<op, kind, arg, res>>
OpOf(c) == c[1]
KindOf(c) == c[2]
ArgOf(c) == c[3]
ResOf(c) == c[4]

Record(c) ==
    /\ last.op \in {"new", "interpretation"}
    /\ Cardinality(interp) < MaxInterpCalls
    /\ interp' = interp \cup {c}
    /\ last' = [op |-> "interpretation"]
    /\ UNCHANGED <<types, vocs, issued, hasher, gen, build, generated>>

IriInterpretation(x) == Record(Call("iri_interpretation", "iri", x, iri_interpretation(x)))
InterpretIri(x) == Record(Call("interpret_iri", "iri", x, interpret_iri(x)))
BlankIdInterpretation(b) ==
    Record(Call("blank_id_interpretation", "blank", b, blank_id_interpretation(b)))
InterpretBlankId(b) == Record(Call("interpret_blank_id", "blank", b, interpret_blank_id(b)))
LiteralInterpretation(l) ==
    Record(Call("literal_interpretation", "literal", l, literal_interpretation(l)))
InterpretLiteral(l) == Record(Call("interpret_literal", "literal", l, interpret_literal(l)))
IrisOf(r) == Record(Call("iris_of", "resource", r, iris_of(r)))
BlankIdsOf(r) == Record(Call("blank_ids_of", "resource", r, blank_ids_of(r)))
LiteralsOf(r) == Record(Call("literals_of", "resource", r, literals_of(r)))

NextInterp ==
    \/ \E x \in InterpIris : IriInterpretation(x)
    \/ \E x \in InterpIris : InterpretIri(x)
    \/ \E b \in InterpBlankIds : BlankIdInterpretation(b)
    \/ \E b \in InterpBlankIds : InterpretBlankId(b)
    \/ \E l \in InterpLiterals : LiteralInterpretation(l)
    \/ \E l \in InterpLiterals : InterpretLiteral(l)
    \/ \E r \in InterpResources : IrisOf(r)
    \/ \E r \in InterpResources : BlankIdsOf(r)
    \/ \E r \in InterpResources : LiteralsOf(r)

SpecInterp == Init /\ [][NextInterp]_vars

\* The resource a recorded forward call produced.
ResourceOf(c) ==
    IF OpOf(c) \in {"iri_interpretation", "blank_id_interpretation", "literal_interpretation"}
    THEN ResOf(c).val ELSE ResOf(c)
ForwardCalls == {c \in interp : KindOf(c) # "resource"}

\* C21: the identity interpretation maps every term to itself.  interpret_*
\* return Term::Id(Id::Iri(x)), Term::Id(Id::Blank(b)), Term::Literal(l); the
\* read-only lookups return Some of the same resource; two calls on the same
\* term give the same resource and two calls on distinct terms give distinct
\* resources.
C21_IdentityInterpretation ==
    /\ \A c \in ForwardCalls :
          /\ OpOf(c) = "interpret_iri" => ResOf(c) = TermId(IdIri(ArgOf(c)))
          /\ OpOf(c) = "iri_interpretation" => ResOf(c) = Some(TermId(IdIri(ArgOf(c))))
          /\ OpOf(c) = "interpret_blank_id" => ResOf(c) = TermId(IdBlank(ArgOf(c)))
          /\ OpOf(c) = "blank_id_interpretation" => ResOf(c) = Some(TermId(IdBlank(ArgOf(c))))
          /\ OpOf(c) = "interpret_literal" => ResOf(c) = TermLiteral(ArgOf(c))
          /\ OpOf(c) = "literal_interpretation" => ResOf(c) = Some(TermLiteral(ArgOf(c)))
    /\ \A c, d \in ForwardCalls :
          (ResourceOf(c) = ResourceOf(d)) <=> (KindOf(c) = KindOf(d) /\ ArgOf(c) = ArgOf(d))

\* interpret_blank_id and iri_interpretation were both called.
C21_Witness ==
    \E c, d \in ForwardCalls :
        /\ OpOf(c) = "interpret_blank_id"
        /\ OpOf(d) = "iri_interpretation"
        /\ ResourceOf(c) # ResourceOf(d)

\* C22: reverse mapping of the identity interpretation.  iris_of of the
\* resource of an IRI x yields exactly <<x>> and yields nothing for the
\* resource of a blank node identifier or of a literal; likewise
\* blank_ids_of and literals_of; so exactly one of the three is non-empty for
\* a resource, and two calls of the same *_of on a resource yield the same
\* sequence.
C22_ReverseIdentity ==
    /\ \A c \in interp \ ForwardCalls :
          LET isIri == \E x \in InterpIris : ArgOf(c) = interpret_iri(x)
              isBlank == \E b \in InterpBlankIds : ArgOf(c) = interpret_blank_id(b)
              isLiteral == \E l \in InterpLiterals : ArgOf(c) = interpret_literal(l)
          IN /\ (isIri /\ ~isBlank /\ ~isLiteral) \/ (~isIri /\ isBlank /\ ~isLiteral)
                  \/ (~isIri /\ ~isBlank /\ isLiteral)
             /\ OpOf(c) = "iris_of" =>
                   /\ \A x \in InterpIris : ArgOf(c) = interpret_iri(x) => ResOf(c) = <<x>>
                   /\ ~isIri => ResOf(c) = <<>>
             /\ OpOf(c) = "blank_ids_of" =>
                   /\ \A b \in InterpBlankIds : ArgOf(c) = interpret_blank_id(b) => ResOf(c) = <<b>>
                   /\ ~isBlank => ResOf(c) = <<>>
             /\ OpOf(c) = "literals_of" =>
                   /\ \A l \in InterpLiterals : ArgOf(c) = interpret_literal(l) => ResOf(c) = <<l>>
                   /\ ~isLiteral => ResOf(c) = <<>>
    /\ \A c, d \in interp \ ForwardCalls :
          (OpOf(c) = OpOf(d) /\ ArgOf(c) = ArgOf(d)) => ResOf(c) = ResOf(d)

\* iris_of and blank_ids_of were called on the resource of an IRI: the first
\* yielded the IRI, the second nothing.
C22_Witness ==
    \E c, d \in interp \ ForwardCalls :
        /\ OpOf(c) = "iris_of"
        /\ OpOf(d) = "blank_ids_of"
        /\ ArgOf(c) = ArgOf(d)
        /\ Len(ResOf(c)) = 1
        /\ ResOf(d) = <<>>

\* C23: try_export_literal on a literal whose type does not resolve in the
\* vocabulary returns the error carrying the offending identifier,
\* ExportError::Iri(id) for Type::Any(id) and ExportError::LangTag(tag) for
\* Type::LangString(tag); when the type resolves the result is the literal
\* with the same value and the same type variant holding the lexical type.
C23_UnknownLiteralType ==
    last.op = "try_export_literal" =>
        LET l == last.arg
            voc == vocs[last.v]
        IN IF l.type_.variant = "Any"
           THEN IF iri(voc, l.type_.payload).some
                THEN last.res = ResOk(Literal(l.value, TypeAny(iri(voc, l.type_.payload).val)))
                ELSE last.res = ResErr(ExportErrorIri(l.type_.payload))
           ELSE IF l.type_.payload \in ForeignLanguageTags
                THEN last.res = ResErr(ExportErrorLangTag(l.type_.payload))
                ELSE last.res = ResOk(Literal(l.value, TypeLangString(l.type_.payload)))

\* A language-tagged literal whose tag the vocabulary does not resolve was
\* exported.
C23_Witness ==
    /\ last.op = "try_export_literal"
    /\ last.arg.type_.variant = "LangString"
    /\ last.arg.type_.payload \in ForeignLanguageTags
    /\ ~last.res.is_ok
    /\ last.res.err.variant = "LangTag"

(***************************************************************************)
(* Canonical rendering.  A formatter call is modelled by the text it       *)
(* writes.                                                                 *)
(***************************************************************************)
\* Display for IriBuf, BlankIdBuf and LanguageTagBuf: the text itself.
IriFmt(i) == i
BlankIdFmt(b) == b
LanguageTagFmt(t) == t
\* RdfDisplay for String and Display for StringLiteral: the quoted value.
StringRdfFmt(v) == "\"" \o v \o "\""
\* RdfDisplay for IriBuf and for LanguageTagBuf.
IriRdfFmt(i) == "<" \o IriFmt(i) \o ">"
LanguageTagRdfFmt(t) == LanguageTagFmt(t)

\* rdf_fmt for Id that puts the blank node identifier in angle brackets.
IdRdfFmtBlankBracketed(id) == "<" \o id.payload \o ">"
\* RdfDisplay for Id.
IdRdfFmt(id) ==
    IF id.variant = "Blank" THEN BlankIdFmt(id.payload)
    ELSE "<" \o IriFmt(id.payload) \o ">"

\* RdfDisplayTypeSeparator for Type.
TypeRdfFmtSeparator(ty) == IF ty.variant = "Any" THEN "^^" ELSE "@"
\* RdfDisplay for Type.
TypeRdfFmt(ty) ==
    IF ty.variant = "Any" THEN IriRdfFmt(ty.payload) ELSE LanguageTagRdfFmt(ty.payload)
\* RdfDisplay for Literal<T, S>: value, type separator, type.
LiteralRdfFmt(l) ==
    StringRdfFmt(l.value) \o TypeRdfFmtSeparator(l.type_) \o TypeRdfFmt(l.type_)

\* loc::Literal: String(s), TypedString(s, ty), LangString(s, tag).
LocString(v) == [variant |-> "String", s |-> v]
LocTypedString(v, ty) == [variant |-> "TypedString", s |-> v, ty |-> ty]
LocLangString(v, t) == [variant |-> "LangString", s |-> v, tag |-> t]
\* Display for loc::Literal.
LocLiteralFmt(l) ==
    IF l.variant = "String" THEN StringRdfFmt(l.s)
    ELSE IF l.variant = "TypedString"
         THEN StringRdfFmt(l.s) \o "^^<" \o IriFmt(l.ty) \o ">"
         ELSE StringRdfFmt(l.s) \o "@" \o LanguageTagFmt(l.tag)

\* RdfDisplay for Term<I, B, L> (src/term.rs) with L the located literal.
Term3RdfFmt(t) ==
    IF t.variant = "Blank" THEN BlankIdFmt(t.payload)
    ELSE IF t.variant = "Iri" THEN "<" \o IriFmt(t.payload) \o ">"
    ELSE LocLiteralFmt(t.payload)

\* The values rendered.
FmtValues == {"v", ""}
FmtTags == {"en"}
FmtIds == {IdIri(i) : i \in Iris} \cup {IdBlank(b) : b \in BlankIds}
FmtLiterals ==
    {Literal(v, TypeAny(i)) : v \in FmtValues, i \in Iris}
        \cup {Literal(v, TypeLangString(t)) : v \in FmtValues, t \in FmtTags}
FmtLocLiterals ==
    {LocString(v) : v \in FmtValues}
        \cup {LocTypedString(v, i) : v \in FmtValues, i \in Iris}
        \cup {LocLangString(v, t) : v \in FmtValues, t \in FmtTags}
FmtTerms3 == FmtIds \cup {TermLiteral(l) : l \in FmtLocLiterals}

RdfFmtId(id) ==
    /\ last.op = "new"
    /\ last' = [op |-> "Id::rdf_fmt", arg |-> id, res |-> IdRdfFmt(id)]
    /\ UNCHANGED <<types, vocs, issued, hasher, gen, build, generated, interp>>

RdfFmtLiteral(l) ==
    /\ last.op = "new"
    /\ last' = [op |-> "Literal::rdf_fmt", arg |-> l, res |-> LiteralRdfFmt(l)]
    /\ UNCHANGED <<types, vocs, issued, hasher, gen, build, generated, interp>>

FmtLocLiteral(l) ==
    /\ last.op = "new"
    /\ last' = [op |-> "loc::Literal::fmt", arg |-> l, res |-> LocLiteralFmt(l)]
    /\ UNCHANGED <<types, vocs, issued, hasher, gen, build, generated, interp>>

RdfFmtTerm3(t) ==
    /\ last.op = "new"
    /\ last' = [op |-> "Term3::rdf_fmt", arg |-> t, res |-> Term3RdfFmt(t)]
    /\ UNCHANGED <<types, vocs, issued, hasher, gen, build, generated, interp>>

NextFmt ==
    \/ \E id \in FmtIds : RdfFmtId(id)
    \/ \E l \in FmtLiterals : RdfFmtLiteral(l)
    \/ \E l \in FmtLocLiterals : FmtLocLiteral(l)
    \/ \E t \in FmtTerms3 : RdfFmtTerm3(t)

SpecFmt == Init /\ [][NextFmt]_vars

Returned(x) == [panicked |-> FALSE, val |-> x]
Panicked == [panicked |-> TRUE]

\* insert_into whose Blank arm interns into the IRI arena.
IdInsertIntoIriArena(voc, ts, id) ==
    LET r == insert(voc, ts.I, id.payload) IN
    [voc |-> r.voc, id |-> [variant |-> id.variant, payload |-> r.id]]

\* Id::insert_into / inserted_into (and embed_into_vocabulary for Id).
IdInsertInto(voc, ts, id) ==
    IF id.variant = "Blank"
    THEN LET r == insert_blank_id(voc, ts.B, id.payload) IN
         [voc |-> r.voc, id |-> IdBlank(r.id)]
    ELSE LET r == insert(voc, ts.I, id.payload) IN
         [voc |-> r.voc, id |-> IdIri(r.id)]

\* EmbedIntoVocabulary for Option<T>, T a lexical Id.
OptionEmbed(voc, ts, g) ==
    IF g.some
    THEN LET r == IdInsertInto(voc, ts, g.val) IN [voc |-> r.voc, id |-> Some(r.id)]
    ELSE [voc |-> voc, id |-> None]

\* EmbedIntoVocabulary for Quad: subject, predicate, object, graph in order,
\* each on the vocabulary the previous one left.
QuadEmbed(voc, ts, q) ==
    LET s == IdInsertInto(voc, ts, q[1])
        p == IdInsertInto(s.voc, ts, q[2])
        o == IdInsertInto(p.voc, ts, q[3])
        g == OptionEmbed(o.voc, ts, q[4])
    IN [voc |-> g.voc, id |-> Quad(s.id, p.id, o.id, g.id)]

\* extract_from_vocabulary that falls back to the arena's first entry.
IdExtractFromVocabularyOrFirst(voc, id) ==
    IF id.variant = "Iri"
    THEN LET r == owned_iri(voc, id.payload) IN
         IF r.is_ok THEN Returned(IdIri(r.val))
         ELSE IF Len(voc.allocated) > 0 THEN Returned(IdIri(voc.allocated[1])) ELSE Panicked
    ELSE LET r == owned_blank_id(voc, id.payload) IN
         IF r.is_ok THEN Returned(IdBlank(r.val))
         ELSE IF Len(voc.blank_allocated) > 0 THEN Returned(IdBlank(voc.blank_allocated[1]))
              ELSE Panicked

\* ExtractFromVocabulary for Id: owned_iri(i).ok().unwrap().
IdExtractFromVocabulary(voc, id) ==
    IF id.variant = "Iri"
    THEN LET r == owned_iri(voc, id.payload) IN
         IF r.is_ok THEN Returned(IdIri(r.val)) ELSE Panicked
    ELSE LET r == owned_blank_id(voc, id.payload) IN
         IF r.is_ok THEN Returned(IdBlank(r.val)) ELSE Panicked

\* ExtractedFromVocabulary for Id: iri(i).unwrap().to_owned().
IdExtractedFromVocabulary(voc, id) ==
    IF id.variant = "Iri"
    THEN LET r == iri(voc, id.payload) IN
         IF r.some THEN Returned(IdIri(r.val)) ELSE Panicked
    ELSE LET r == blank_id(voc, id.payload) IN
         IF r.some THEN Returned(IdBlank(r.val)) ELSE Panicked

\* ExtractFromVocabulary for Option<T>, T an Id<I, B>.
OptionExtract(voc, g) ==
    IF g.some
    THEN LET r == IdExtractFromVocabulary(voc, g.val) IN
         IF r.panicked THEN Panicked ELSE Returned(Some(r.val))
    ELSE Returned(None)

\* ExtractFromVocabulary for Quad.
QuadExtract(voc, q) ==
    LET s == IdExtractFromVocabulary(voc, q[1])
        p == IdExtractFromVocabulary(voc, q[2])
        o == IdExtractFromVocabulary(voc, q[3])
        g == OptionExtract(voc, q[4])
    IN IF s.panicked \/ p.panicked \/ o.panicked \/ g.panicked THEN Panicked
       ELSE Returned(Quad(s.val, p.val, o.val, g.val))

\* The lexical identifiers and quads embedded.
EmbedIds == {IdIri("a"), IdIri("k"), IdBlank("_:s")}
EmbedQuads ==
    {Quad(s, IdIri("k"), o, g) : s \in {IdIri("a"), IdBlank("_:s")},
                                 o \in {IdIri("a"), IdBlank("_:s")},
                                 g \in {None, Some(IdIri("k")), Some(IdBlank("_:s"))}}

\* issued, extended with the identifiers the vocabulary gives the forms lex.
IssuedWith(iss, voc, ts, lex) ==
    LET iris == {l.payload : l \in {m \in lex : m.variant = "Iri"}}
        blanks == {l.payload : l \in {m \in lex : m.variant = "Blank"}}
    IN [iri |-> [x \in DOMAIN iss.iri \cup iris |->
                    IF x \in DOMAIN iss.iri THEN iss.iri[x] ELSE get(voc, ts.I, x).val],
        blank |-> [x \in DOMAIN iss.blank \cup blanks |->
                    IF x \in DOMAIN iss.blank THEN iss.blank[x]
                    ELSE get_blank_id(voc, ts.B, x).val]]

EmbedId(v, x) ==
    LET r == IdInsertInto(vocs[v], types, x) IN
    /\ vocs' = [vocs EXCEPT ![v] = r.voc]
    /\ issued' = [issued EXCEPT ![v] = IssuedWith(@, r.voc, types, {x})]
    /\ last' = [op |-> "insert_into", v |-> v, arg |-> x, res |-> r.id]
    /\ UNCHANGED <<types, hasher, gen, build, generated, interp>>

EmbedQuad(v, q) ==
    LET r == QuadEmbed(vocs[v], types, q) IN
    /\ vocs' = [vocs EXCEPT ![v] = r.voc]
    /\ issued' = [issued EXCEPT ![v] =
                     IssuedWith(@, r.voc, types,
                                {q[1], q[2], q[3]} \cup (IF q[4].some THEN {q[4].val} ELSE {}))]
    /\ last' = [op |-> "Quad::embed_into_vocabulary", v |-> v, arg |-> q, res |-> r.id]
    /\ UNCHANGED <<types, hasher, gen, build, generated, interp>>

ExtractId(v, id) ==
    /\ last' = [op |-> "extract_from_vocabulary", v |-> v, arg |-> id,
                res |-> IdExtractFromVocabulary(vocs[v], id)]
    /\ UNCHANGED <<types, vocs, issued, hasher, gen, build, generated, interp>>

ExtractedId(v, id) ==
    /\ last' = [op |-> "extracted_from_vocabulary", v |-> v, arg |-> id,
                res |-> IdExtractedFromVocabulary(vocs[v], id)]
    /\ UNCHANGED <<types, vocs, issued, hasher, gen, build, generated, interp>>

NextEmbed ==
    \/ \E v \in Vocs, x \in EmbedIds : EmbedId(v, x)
    \/ \E q \in EmbedQuads : EmbedQuad("A", q)
    \/ \E v \in Vocs, id \in Ids(types) : ExtractId(v, id)
    \/ \E v \in Vocs, id \in Ids(types) : ExtractedId(v, id)

SpecEmbed == Init /\ [][NextEmbed]_vars

\* C25: embed/extract round trip.  insert_into on a lexical Id returns an
\* identifier of the same Blank/Iri variant whose extraction from the same
\* vocabulary (extract_from_vocabulary, extracted_from_vocabulary) returns
\* the lexical Id; embedding a quad of lexical ids and extracting the result
\* returns the quad, whatever the vocabulary held before.
C25_EmbedExtractRoundTrip ==
    /\ last.op = "insert_into" =>
          /\ last.res.variant = last.arg.variant
          /\ IdExtractFromVocabulary(vocs[last.v], last.res) = Returned(last.arg)
          /\ IdExtractedFromVocabulary(vocs[last.v], last.res) = Returned(last.arg)
    /\ last.op = "Quad::embed_into_vocabulary" =>
          QuadExtract(vocs[last.v], last.res) = Returned(last.arg)

\* A quad with a graph label was embedded into a vocabulary that already
\* held an IRI, and extracts to itself.
C25_Witness ==
    /\ last.op = "Quad::embed_into_vocabulary"
    /\ last.arg[4].some
    /\ Len(vocs[last.v].allocated) >= 2
    /\ QuadExtract(vocs[last.v], last.res) = Returned(last.arg)

\* The lexical forms for which instance v issued the identifier id.
IssuedFor(v, id) ==
    IF id.variant = "Iri"
    THEN {x \in DOMAIN issued[v].iri : issued[v].iri[x] = id.payload}
    ELSE {x \in DOMAIN issued[v].blank : issued[v].blank[x] = id.payload}
\* id was issued by another instance for a form v did not issue it for.
ForeignId(v, id) ==
    \E w \in Vocs \ {v} : \E x \in IssuedFor(w, id) : x \notin IssuedFor(v, id)
\* What the vocabulary resolves id to.
Resolve(voc, id) ==
    IF id.variant = "Iri" THEN iri(voc, id.payload) ELSE blank_id(voc, id.payload)

C27_ArenaMapConsistent ==
    \A v \in Vocs :
        LET voc == vocs[v] IN
        /\ DOMAIN voc.map = Range(voc.allocated)
        /\ \A i \in 1..Len(voc.allocated) : voc.map[voc.allocated[i]] = i - 1
        /\ \A i, j \in 1..Len(voc.allocated) :
              i # j => voc.allocated[i] # voc.allocated[j]
        /\ DOMAIN voc.blank_map = Range(voc.blank_allocated)
        /\ \A i \in 1..Len(voc.blank_allocated) :
              voc.blank_map[voc.blank_allocated[i]] = i - 1
        /\ \A i, j \in 1..Len(voc.blank_allocated) :
              i # j => voc.blank_allocated[i] # voc.blank_allocated[j]

\* An instance holds two interned IRIs and an interned blank node identifier,
\* and an insert of an IRI it already held has just returned.
C27_Witness ==
    /\ last.op = "insert"
    /\ Len(vocs[last.v].allocated) = 2
    /\ Len(vocs[last.v].blank_allocated) >= 1
    /\ last.res = IndexFrom(0)

\* C28: get agrees with insert.  In every state, get(x) is Some(id) exactly
\* when insert(x) would leave the vocabulary as it is, and insert(x) then
\* returns that id; iri(id) is Some(x) whenever get(x) is Some(id); and once
\* insert(x) returned id, get(x) is Some(id).  The same for blank node
\* identifiers.
C28_GetAgreesWithInsert ==
    \A v \in Vocs :
        LET voc == vocs[v] IN
        /\ \A x \in Iris :
              LET g == get(voc, types.I, x)
                  r == insert(voc, types.I, x)
              IN /\ g.some <=> r.voc = voc
                 /\ g.some => (r.id = g.val /\ iri(voc, g.val) = Some(x))
                 /\ x \in DOMAIN issued[v].iri => g = Some(issued[v].iri[x])
        /\ \A x \in BlankIds :
              LET g == get_blank_id(voc, types.B, x)
                  r == insert_blank_id(voc, types.B, x)
              IN /\ g.some <=> r.voc = voc
                 /\ g.some => (r.id = g.val /\ blank_id(voc, g.val) = Some(x))
                 /\ x \in DOMAIN issued[v].blank => g = Some(issued[v].blank[x])

\* get was called on an IRI interned earlier and returned its dynamic index,
\* while another IRI of the model is still unknown to the instance.
C28_Witness ==
    /\ last.op = "get"
    /\ last.arg \in DOMAIN issued[last.v].iri
    /\ last.res = Some(issued[last.v].iri[last.arg])
    /\ last.res.val.tag = "Index"
    /\ \E x \in Iris : ~get(vocs[last.v], types.I, x).some

\* Whether each position of a quad resolves in the vocabulary.
SubjectResolves(voc, q) == Resolve(voc, q[1]).some
PredicateResolves(voc, q) == iri(voc, q[2]).some
ObjectResolves(voc, q) ==
    IF q[3].variant = "Id" THEN Resolve(voc, q[3].payload).some
    ELSE IF q[3].payload.type_.variant = "Any" THEN iri(voc, q[3].payload.type_.payload).some
    ELSE q[3].payload.type_.payload \notin ForeignLanguageTags
GraphResolves(voc, q) == q[4].some => Resolve(voc, q[4].val).some

\* C29: quad export checks subject, predicate, object, graph in that order
\* and stops at the first failure.  The result is Ok iff every present
\* component resolves (an absent graph never fails); otherwise the error is
\* tagged with the first position that does not resolve, even when later
\* positions do not resolve either; and the call leaves the vocabulary as it
\* was.
C29_FirstFailureWins ==
    /\ [](last.op = "Quad::try_extract_from_vocabulary" =>
            LET voc == vocs[last.v]
                q == last.q
                sOk == SubjectResolves(voc, q)
                pOk == PredicateResolves(voc, q)
                oOk == ObjectResolves(voc, q)
                gOk == GraphResolves(voc, q)
            IN /\ last.res.is_ok <=> (sOk /\ pOk /\ oOk /\ gOk)
               /\ ~sOk => last.res.err.variant = "Subject"
               /\ (sOk /\ ~pOk) => last.res.err.variant = "Predicate"
               /\ (sOk /\ pOk /\ ~oOk) => last.res.err.variant = "Object"
               /\ (sOk /\ pOk /\ oOk /\ ~gOk) => last.res.err.variant = "Graph")
    /\ [][last'.op = "Quad::try_extract_from_vocabulary" /\ last' # last => vocs' = vocs]_vars

\* A quad whose subject resolves and whose predicate and object both do not
\* was exported, and the failure is predicate-tagged.
C29_Witness ==
    /\ last.op = "Quad::try_extract_from_vocabulary"
    /\ SubjectResolves(vocs[last.v], last.q)
    /\ ~PredicateResolves(vocs[last.v], last.q)
    /\ ~ObjectResolves(vocs[last.v], last.q)
    /\ ~last.res.is_ok
    /\ last.res.err.variant = "Predicate"

(***************************************************************************)
(* #[derive(Ord)] of Id, Term and Quad.                                    *)
(***************************************************************************)
\* Ordering::then.
Then(c, d) == IF c = "Equal" THEN d ELSE c
\* Ordering::reverse.
Reverse(c) == IF c = "Less" THEN "Greater" ELSE IF c = "Greater" THEN "Less" ELSE "Equal"

\* #[derive(Ord)] of Id<I, B>: the variants in declaration order, Blank
\* then Iri, and the payloads within a variant.
IdCmp(ts, a, b) ==
    IF a.variant = b.variant
    THEN IndexPartialCmp(IF a.variant = "Blank" THEN ts.B ELSE ts.I, a.payload, b.payload).val
    ELSE IF a.variant = "Blank" THEN "Less" ELSE "Greater"

\* #[derive(Ord)] of Term<I, L>: Id then Literal.
TermCmp(ts, a, b) ==
    IF a.variant = b.variant
    THEN IF a.variant = "Id" THEN IdCmp(ts, a.payload, b.payload)
         ELSE LiteralPartialCmp(ts.I, a.payload, b.payload).val
    ELSE IF a.variant = "Id" THEN "Less" ELSE "Greater"

\* Ord of Option<G>: None before Some.
OptionCmp(ts, g, h) ==
    IF g.some /\ h.some THEN IdCmp(ts, g.val, h.val)
    ELSE IF ~g.some /\ ~h.some THEN "Equal"
    ELSE IF g.some THEN "Greater" ELSE "Less"

\* #[derive(Ord)] of Quad: the four fields in order.
QuadCmp(ts, q, r) ==
    Then(IdCmp(ts, q[1], r[1]),
         Then(IndexPartialCmp(ts.I, q[2], r[2]).val,
              Then(TermCmp(ts, q[3], r[3]), OptionCmp(ts, q[4], r[4]))))

\* The hand-written comparison, the derived one and the values of a call.
PartialCmpOf(op, ts, a, b) ==
    IF op = "Id::cmp" THEN IdPartialCmp(ts, a, b)
    ELSE IF op = "Term::cmp" THEN TermPartialCmp(ts, a, b)
    ELSE QuadPartialCmp(ts, a, b)
CmpOf(op, ts, a, b) ==
    IF op = "Id::cmp" THEN IdCmp(ts, a, b)
    ELSE IF op = "Term::cmp" THEN TermCmp(ts, a, b)
    ELSE QuadCmp(ts, a, b)
ValuesOf(op, ts) ==
    IF op = "Id::cmp" THEN Ids(ts) ELSE IF op = "Term::cmp" THEN CmpTerms(ts) ELSE Quads

\* C30: the hand-written comparisons of Id, Term and Quad are a total order
\* consistent with equality and with the derived Ord.  partial_cmp(a, b) is
\* never None and is Some(cmp(a, b)); it is Some(Equal) iff a == b;
\* partial_cmp(b, a) is its reverse; and a <= b, b <= c imply a <= c, with
\* Less if either step is Less.
C30_TotalOrder ==
    last.op \in {"Id::cmp", "Term::cmp", "Quad::cmp"} =>
        LET a == last.a
            b == last.b
        IN /\ last.cmp.some
           /\ last.cmp.val = CmpOf(last.op, types, a, b)
           /\ (last.cmp.val = "Equal") <=> last.eq
           /\ PartialCmpOf(last.op, types, b, a) = Some(Reverse(last.cmp.val))
           /\ \A c \in ValuesOf(last.op, types) :
                 LET bc == PartialCmpOf(last.op, types, b, c)
                     ac == PartialCmpOf(last.op, types, a, c)
                 IN (last.cmp.val # "Greater" /\ bc.some /\ bc.val # "Greater")
                    => /\ ac.some
                       /\ ac.val # "Greater"
                       /\ ("Less" \in {last.cmp.val, bc.val} => ac.val = "Less")

\* Two quads equal in subject, predicate and object were compared, the first
\* without graph and the second with one: Less.
C30_Witness ==
    /\ last.op = "Quad::cmp"
    /\ <<last.a[1], last.a[2], last.a[3]>> = <<last.b[1], last.b[2], last.b[3]>>
    /\ ~last.a[4].some
    /\ last.b[4].some
    /\ last.cmp = Some("Less")
    /\ ~last.eq

====
